---------------------------- MODULE Spec2Model ----------------------------
(***************************************************************************)
(* Model of the core of the inventory dashboard: the alert engine          *)
(* (src/src/alert_intelligence.py, class AlertIntelligence), the inventory *)
(* metrics (src/src/data_processor.py), the consumption table the pages    *)
(* compute from the sales, and the forecasts (src/src/predictions.py).     *)
(*                                                                         *)
(* Quantities (stock, usage, consumption) are integers of an arbitrary     *)
(* unit; a quotient the code computes in floating point is kept here as an *)
(* exact fraction, and a comparison of a quotient with a number is decided *)
(* by cross-multiplication.  A call reads the clock once: the alerts of one *)
(* call carry the value of `now` at the call as their timestamp.           *)
(***************************************************************************)
EXTENDS Integers, Sequences, FiniteSets, TLC

VARIABLES
    inventory_df,    \* the inventory table handed to the detectors
    consumption_df,  \* the consumption table handed to the anomaly detector
    alerts_arg,      \* the alerts argument a caller hands to the get_* methods
    argument,        \* the arguments a caller hands to a function of the other modules
    alerts,          \* AlertIntelligence.alerts (self.alerts)
    now,             \* the wall clock datetime.now() reads
    call             \* the last call made on the instance: operation, arguments, result

vars == <<inventory_df, consumption_df, alerts_arg, argument, alerts, now, call>>

\* What a call is made on: the arguments of the caller.
inputs == <<inventory_df, consumption_df, alerts_arg, argument>>

-----------------------------------------------------------------------------
(* Bounds of the model                                                     *)

MaxRows == 2         \* rows of a multi-row inventory table
MaxStock == 101      \* current_stock of a single-row table ranges over 0..MaxStock
MaxUsage == 2        \* avg_daily_usage ranges over -1..MaxUsage
MaxTimeframes == 2   \* length of a configured timeframe list (the default list is added)
MaxMonths == 11      \* months (rows) of a consumption table
MaxAlertArgs == 2    \* length of an alert list handed to get_alert_summary
MaxClock == 1        \* the clock ticks at most this often
MaxInsightAlerts == 4 \* length of an alert list handed to get_actionable_insights
MaxMetricStock == 125 \* current_stock handed to the inventory metrics ranges over 0..MaxMetricStock
MaxReorderPoint == 62 \* reorder_point handed to the inventory metrics ranges over 0..MaxReorderPoint
MaxLeadTime == 8     \* lead_time_days handed to calculate_reorder_point ranges over -1..MaxLeadTime
MaxSafetyStock == 3  \* a safety stock handed to calculate_reorder_point ranges over -1..MaxSafetyStock
MaxSales == 2        \* sale lines of a sales table
MaxHistory == 4      \* points of a history handed to a forecast
MaxWindow == 4       \* the window of a moving average ranges over 1..MaxWindow
MaxPeriods == 2      \* the periods to forecast range over 0..MaxPeriods
MaxAccuracyPoints == 3  \* points of a series handed to the accuracy metrics
MaxDateStock == 40   \* stock on hand when a reorder date is predicted
MaxItems == 3        \* items of a frame handed to the ABC classification
MaxDemand == 8       \* annual demand of the order quantity
MaxCost == 4         \* ordering cost and holding cost of the order quantity

-----------------------------------------------------------------------------
(* Class constants, alert_intelligence.py lines 16-29                      *)

CRITICAL == "critical"
HIGH == "high"
MEDIUM == "medium"
LOW == "low"
INFO == "info"

STOCKOUT == "stockout_risk"
OVERSTOCK == "overstock"
CONSUMPTION_SPIKE == "consumption_spike"
CONSUMPTION_DROP == "consumption_drop"
REORDER_TIMING == "reorder_timing"

-----------------------------------------------------------------------------
(* Numbers                                                                 *)

Abs(x) == IF x < 0 THEN 0 - x ELSE x

RECURSIVE GCD(_, _)
GCD(a, b) == IF b = 0 THEN a ELSE GCD(b, a % b)

\* The fraction n/d in lowest terms with a positive denominator (d # 0).
Rat(n, d) ==
    LET g == GCD(Abs(n), Abs(d))
        s == IF d < 0 THEN 0 - 1 ELSE 1
    IN  [num |-> (s * n) \div g, den |-> (s * d) \div g]

\* The outcome of x / 0: no number of days (den = 0 marks it).
ZeroDivision == [num |-> 0, den |-> 0]

\* Python's a / b.
Divide(a, b) == IF b = 0 THEN ZeroDivision ELSE Rat(a, b)

\* q <= k, q < k, q > k, q >= k for a fraction q and an integer k; every
\* comparison with the outcome of a division by zero is false.
RatLeq(q, k) == q.den > 0 /\ q.num <= k * q.den
RatLt(q, k) == q.den > 0 /\ q.num < k * q.den
RatGt(q, k) == q.den > 0 /\ q.num > k * q.den
RatGeq(q, k) == q.den > 0 /\ q.num >= k * q.den

-----------------------------------------------------------------------------
(* Tables                                                                  *)

\* pandas' row.get(key, default) and dict.get(key, default)
Get(row, key, default) == IF key \in DOMAIN row THEN row[key] ELSE default

\* safety_stock = None, and a safety stock the caller passes
NoSafetyStock == [is_none |-> TRUE, value |-> 0]
SafetyStock(value) == [is_none |-> FALSE, value |-> value]

\* The default taken for every falsy safety stock, 0 included.
SafetyStockIfFalsy(avg_daily_usage, safety_stock) ==
    IF safety_stock.is_none \/ safety_stock.value = 0
    THEN avg_daily_usage * 7
    ELSE safety_stock.value

\* data_processor.py lines 138-140: a week of usage when safety_stock is None
SafetyStockOrDefault(avg_daily_usage, safety_stock) ==
    IF safety_stock.is_none
    THEN avg_daily_usage * 7
    ELSE safety_stock.value

\* DataProcessor.calculate_reorder_point, data_processor.py lines 129-143
calculate_reorder_point(avg_daily_usage, lead_time_days, safety_stock) ==
    (lead_time_days * avg_daily_usage)
        + SafetyStockOrDefault(avg_daily_usage, safety_stock)

\* DataProcessor.frequency_to_days: the lead times a frequency maps to
LeadTimes == {1, 7, 14, 30, 90}

\* The ingredient of the i-th row (ingredient names are the key of the
\* shipment table).
IngredientNames == <<"Rice", "Egg", "Ramen", "Beef">>

\* A row of the inventory table the alerts page builds (lines 80-93 of the
\* page): reorder_point is derived from the usage and the lead time.
MkRow(name, stock, usage, lead) ==
    [ingredient |-> name, current_stock |-> stock, avg_daily_usage |-> usage,
     lead_time_days |-> lead,
     reorder_point |-> calculate_reorder_point(usage, lead, NoSafetyStock)]

\* A row of a table that has no lead_time_days and no reorder_point column.
MkBareRow(name, stock, usage) ==
    [ingredient |-> name, current_stock |-> stock, avg_daily_usage |-> usage]

UsageValues == (0 - 1)..MaxUsage

\* Every single-row table without a lead time, over the whole range of stock
\* and usage.
BareRowTables ==
    { <<MkBareRow(IngredientNames[1], s, u)>> :
        s \in 0..MaxStock, u \in UsageValues }

\* Every single-row table over the whole range of stock, usage and lead time.
SingleRowTables ==
    { <<MkRow(IngredientNames[1], s, u, l)>> :
        s \in 0..MaxStock, u \in UsageValues, l \in LeadTimes }
    \cup BareRowTables

\* The scenario stock 100, usage 10, reorder point 40.
ScenarioTable ==
    << [ingredient |-> IngredientNames[1], current_stock |-> 100,
        avg_daily_usage |-> 10, reorder_point |-> 40] >>

\* Rows that between them reach every priority of every inventory detector:
\* <<current_stock, avg_daily_usage, lead_time_days>>.
SampleRows ==
    { <<1, 1, 30>>,     \* 1 day: critical stockout
      <<5, 1, 30>>,     \* 5 days: high stockout
      <<10, 1, 7>>,     \* 10 days: medium stockout and reorder window of lead time 7
      <<40, 1, 30>>,    \* 40 days: reorder window of lead time 30 only
      <<61, 1, 7>>,     \* 61 days: medium overstock
      <<91, 1, 7>>,     \* 91 days: high overstock
      <<20, 1, 1>>,     \* 20 days: no alert
      <<9, 0, 7>> }     \* no usage: skipped

RECURSIVE TablesOfLength(_)
TablesOfLength(n) ==
    IF n = 0 THEN { <<>> }
    ELSE { Append(t, MkRow(IngredientNames[n], r[1], r[2], r[3])) :
             t \in TablesOfLength(n - 1), r \in SampleRows }

\* Tables of several rows, for what depends on the order of the rows.
MultiRowTables == UNION { TablesOfLength(n) : n \in 0..MaxRows }

InventoryTables == SingleRowTables \cup MultiRowTables

\* The tables detect_stockout_risk is called on: it reads a row's ingredient,
\* current_stock and avg_daily_usage only (lines 52-54).
StockTables == BareRowTables \cup MultiRowTables \cup {ScenarioTable}

\* inventory_df.empty
IsEmpty(df) == Len(df) = 0

-----------------------------------------------------------------------------
(* The inventory detectors.  Each row yields the alerts it appends and the *)
(* divisors of the divisions it performs; an alert's title and message are *)
(* text renderings of its other fields and are left out.                   *)

\* What a skipped row yields (the `continue` of a detector's loop).
Skipped == [alerts |-> <<>>, divisors |-> <<>>]

\* A guard that lets a usage of zero through.
SkipsNegativeOnly(daily_usage) == daily_usage < 0

\* The `if daily_usage <= 0: continue` guards: lines 56-57, 116-117, 245-246.
StockoutSkips(daily_usage) == daily_usage <= 0
OverstockSkips(daily_usage) == daily_usage <= 0
ReorderSkips(daily_usage) == daily_usage <= 0

\* A priority that takes 3 days and 7 days for the next level already.
StockoutPriorityStrict(days_remaining) ==
    IF RatLt(days_remaining, 3) THEN CRITICAL
    ELSE IF RatLt(days_remaining, 7) THEN HIGH
    ELSE MEDIUM

\* Lines 64-75: the priority of a stockout alert.
StockoutPriority(days_remaining) ==
    IF RatLeq(days_remaining, 1) THEN CRITICAL
    ELSE IF RatLeq(days_remaining, 3) THEN CRITICAL
    ELSE IF RatLeq(days_remaining, 7) THEN HIGH
    ELSE MEDIUM

\* Lines 64-75: the recommended action of a stockout alert.
StockoutAction(days_remaining) ==
    IF RatLeq(days_remaining, 1) THEN "ORDER IMMEDIATELY"
    ELSE IF RatLeq(days_remaining, 3) THEN "Order today"
    ELSE IF RatLeq(days_remaining, 7) THEN "Plan order this week"
    ELSE "Monitor closely"

\* Lines 61-62 and 90: the timeframes an alert is appended for, in the order
\* of the loop over the list: the first one in list order that days_remaining
\* does not exceed, after which the loop breaks.
AllMatchingTimeframes(timeframes, days_remaining) ==
    SelectSeq(timeframes, LAMBDA t : RatLeq(days_remaining, t))

\* The loop without its break: an alert for every matching timeframe.
AlertedTimeframesNoBreak(timeframes, days_remaining) ==
    AllMatchingTimeframes(timeframes, days_remaining)

AlertedTimeframes(timeframes, days_remaining) ==
    LET matching == AllMatchingTimeframes(timeframes, days_remaining)
    IN  IF matching = <<>> THEN <<>> ELSE <<Head(matching)>>

\* Lines 77-89: the alert appended for one timeframe.
StockoutAlert(ingredient, current_stock, daily_usage, days_remaining, timeframe, clock) ==
    [ingredient |-> ingredient,
     category |-> STOCKOUT,
     priority |-> StockoutPriority(days_remaining),
     timeframe |-> timeframe,       \* "<timeframe>-day forecast"
     action |-> StockoutAction(days_remaining),
     current_value |-> current_stock,
     threshold |-> daily_usage * timeframe,
     days_remaining |-> days_remaining,
     timestamp |-> clock]

\* Lines 52-90: one iteration of detect_stockout_risk's loop over the rows.
StockoutRow(row, timeframes, clock) ==
    LET ingredient == Get(row, "ingredient", "Unknown")
        current_stock == Get(row, "current_stock", 0)
        daily_usage == Get(row, "avg_daily_usage", 0)
    IN  IF StockoutSkips(daily_usage) THEN Skipped
        ELSE LET days_remaining == Divide(current_stock, daily_usage)
                 hit == AlertedTimeframes(timeframes, days_remaining)
             IN  [alerts |-> [i \in 1..Len(hit) |->
                                StockoutAlert(ingredient, current_stock, daily_usage,
                                              days_remaining, hit[i], clock)],
                  divisors |-> <<[ingredient |-> ingredient, divisor |-> daily_usage]>>]

\* Lines 123-125: the priority of an overstock alert.
OverstockPriority(days_of_stock) ==
    IF RatGt(days_of_stock, 90) THEN HIGH ELSE MEDIUM

\* A threshold that is itself excessive already.
IsOverstockInclusive(days_of_stock, threshold_days) ==
    RatGeq(days_of_stock, threshold_days)

\* Line 121: whether the stock is excessive.
IsOverstock(days_of_stock, threshold_days) == RatGt(days_of_stock, threshold_days)

\* Line 123: the stock above the 30 days held to be optimal.
ExcessStock(current_stock, daily_usage) == current_stock - (daily_usage * 30)

\* Lines 112-139: one iteration of detect_overstock's loop over the rows.
OverstockRow(row, threshold_days, clock) ==
    LET ingredient == Get(row, "ingredient", "Unknown")
        current_stock == Get(row, "current_stock", 0)
        daily_usage == Get(row, "avg_daily_usage", 0)
    IN  IF OverstockSkips(daily_usage) THEN Skipped
        ELSE LET days_of_stock == Divide(current_stock, daily_usage)
             IN  [alerts |->
                    IF IsOverstock(days_of_stock, threshold_days)
                    THEN <<[ingredient |-> ingredient,
                            category |-> OVERSTOCK,
                            priority |-> OverstockPriority(days_of_stock),
                            current_value |-> current_stock,
                            optimal_value |-> daily_usage * 30,
                            excess_amount |-> ExcessStock(current_stock, daily_usage),
                            days_of_stock |-> days_of_stock,
                            timestamp |-> clock]>>
                    ELSE <<>>,
                  divisors |-> <<[ingredient |-> ingredient, divisor |-> daily_usage]>>]

\* A window that is open at its end.
InReorderWindowOpen(days_remaining, lead_time_days) ==
    /\ RatGeq(days_remaining, lead_time_days + 3)
    /\ RatLt(days_remaining, lead_time_days + 3 + 7)

\* Lines 251-255: whether days_remaining lies in the optimal reorder window.
InReorderWindow(days_remaining, lead_time_days) ==
    LET buffer_days == 3
        optimal_window_start == lead_time_days + buffer_days
        optimal_window_end == lead_time_days + buffer_days + 7
    IN  /\ RatGeq(days_remaining, optimal_window_start)
        /\ RatLeq(days_remaining, optimal_window_end)

\* Lines 239-271: one iteration of detect_optimal_reorder_timing's loop.
ReorderRow(row, clock) ==
    LET ingredient == Get(row, "ingredient", "Unknown")
        current_stock == Get(row, "current_stock", 0)
        daily_usage == Get(row, "avg_daily_usage", 0)
        lead_time_days == Get(row, "lead_time_days", 7)
        reorder_point == Get(row, "reorder_point", 0)
    IN  IF ReorderSkips(daily_usage) THEN Skipped
        ELSE LET days_remaining == Divide(current_stock, daily_usage)
             IN  [alerts |->
                    IF InReorderWindow(days_remaining, lead_time_days)
                    THEN <<[ingredient |-> ingredient,
                            category |-> REORDER_TIMING,
                            priority |-> MEDIUM,
                            action |-> "Place order now",
                            current_value |-> current_stock,
                            reorder_point |-> reorder_point,
                            days_remaining |-> days_remaining,
                            lead_time |-> lead_time_days,
                            timestamp |-> clock]>>
                    ELSE <<>>,
                  divisors |-> <<[ingredient |-> ingredient, divisor |-> daily_usage]>>]

\* The loop over the rows: what the iterations append, in row order.
RECURSIVE StockoutRows(_, _, _)
StockoutRows(df, timeframes, clock) ==
    IF df = <<>> THEN Skipped
    ELSE LET first == StockoutRow(Head(df), timeframes, clock)
             rest == StockoutRows(Tail(df), timeframes, clock)
         IN  [alerts |-> first.alerts \o rest.alerts,
              divisors |-> first.divisors \o rest.divisors]

RECURSIVE OverstockRows(_, _, _)
OverstockRows(df, threshold_days, clock) ==
    IF df = <<>> THEN Skipped
    ELSE LET first == OverstockRow(Head(df), threshold_days, clock)
             rest == OverstockRows(Tail(df), threshold_days, clock)
         IN  [alerts |-> first.alerts \o rest.alerts,
              divisors |-> first.divisors \o rest.divisors]

RECURSIVE ReorderRows(_, _)
ReorderRows(df, clock) ==
    IF df = <<>> THEN Skipped
    ELSE LET first == ReorderRow(Head(df), clock)
             rest == ReorderRows(Tail(df), clock)
         IN  [alerts |-> first.alerts \o rest.alerts,
              divisors |-> first.divisors \o rest.divisors]

\* What a call yields: the list it returns, whether it raised instead
\* (a division by zero), and the divisors it divided by.
Outcome(rows) ==
    LET raised == \E i \in 1..Len(rows.divisors) : rows.divisors[i].divisor = 0
    IN  [ret |-> IF raised THEN <<>> ELSE rows.alerts,
         raised |-> raised,
         divisors |-> rows.divisors]

\* detect_stockout_risk(inventory_df, timeframes), lines 34-92
detect_stockout_risk(df, timeframes, clock) ==
    IF IsEmpty(df) THEN Outcome(Skipped)
    ELSE Outcome(StockoutRows(df, timeframes, clock))

\* detect_overstock(inventory_df, threshold_days), lines 94-141
detect_overstock(df, threshold_days, clock) ==
    IF IsEmpty(df) THEN Outcome(Skipped)
    ELSE Outcome(OverstockRows(df, threshold_days, clock))

\* detect_optimal_reorder_timing(inventory_df), lines 223-273
detect_optimal_reorder_timing(df, clock) ==
    IF IsEmpty(df) THEN Outcome(Skipped)
    ELSE Outcome(ReorderRows(df, clock))

-----------------------------------------------------------------------------
(* The consumption anomaly detector.  A consumption table has one row per  *)
(* month and, beside the month, one column per ingredient.                 *)

RECURSIVE SumTo(_, _)
SumTo(seq, k) == IF k = 0 THEN 0 ELSE seq[k] + SumTo(seq, k - 1)

Sum(seq) == SumTo(seq, Len(seq))

\* np.mean(usage), line 173
Mean(usage) == Rat(Sum(usage), Len(usage))

\* np.std(usage), line 174, is the root of the mean of the squared deviations
\* from the mean.  With n points of sum S the deviation of x is (n*x - S)/n,
\* so std = sqrt(ScaledSquares(usage)) / (n * sqrt(n)).
ScaledDeviation(n, S, x) == n * x - S

ScaledSquares(usage) ==
    LET n == Len(usage)
        S == Sum(usage)
    IN  Sum([i \in 1..n |->
                ScaledDeviation(n, S, usage[i]) * ScaledDeviation(n, S, usage[i])])

\* std == 0, line 176
StdIsZero(usage) == ScaledSquares(usage) = 0

\* The point tested: the maximum of the series instead of its last point.
LargestPoint(usage) ==
    CHOOSE x \in {usage[i] : i \in 1..Len(usage)} :
        \A i \in 1..Len(usage) : usage[i] <= x

\* usage[-1], line 180
Latest(usage) == usage[Len(usage)]

\* z_score = (latest - mean) / std, line 181: the fraction
\* (dev / n) / (sqrt(squares) / (n * sqrt(n))) = dev * sqrt(n) / sqrt(squares),
\* kept as its sign and its square n * dev^2 / squares.
ZScore(usage) ==
    LET dev == ScaledDeviation(Len(usage), Sum(usage), Latest(usage))
    IN  [sign |-> IF dev > 0 THEN 1 ELSE IF dev < 0 THEN 0 - 1 ELSE 0,
         square |-> Divide(Len(usage) * dev * dev, ScaledSquares(usage))]

\* abs(z_score), line 217
AbsZ(z) == [sign |-> Abs(z.sign), square |-> z.square]

\* Lines 173-181 compute the z_score in floating point through a mean, a
\* root and a quotient, each rounded: the computed value lies next to the
\* exact one, on the side `rounding` tells (1 above, -1 below, 0 on it; 0
\* when the column does not say).  Which side is a fact of the series: in
\* double precision [21, 21, 21, 21, 0] gives -2.0000000000000004, nine 0
\* and then 21 give 3.0000000000000004, and [0, 0, 0, 0, 21] gives 2.0.
Rounding(z) == IF "rounding" \in DOMAIN z THEN z.rounding ELSE 0

Rounded(z, column) ==
    IF "rounding" \in DOMAIN column
    THEN [sign |-> z.sign, square |-> z.square, rounding |-> column.rounding]
    ELSE z

\* z > t and z < -t for a threshold t >= 0 given as a fraction: decided by
\* the exact value, and by the rounding when the exact value is the threshold.
ZAbove(z, t) ==
    /\ z.sign = 1
    /\ z.square.den > 0
    /\ \/ z.square.num * t.den * t.den > t.num * t.num * z.square.den
       \/ /\ z.square.num * t.den * t.den = t.num * t.num * z.square.den
          /\ Rounding(z) = 1

ZBelowMinus(z, t) ==
    /\ z.sign = 0 - 1
    /\ z.square.den > 0
    /\ \/ z.square.num * t.den * t.den > t.num * t.num * z.square.den
       \/ /\ z.square.num * t.den * t.den = t.num * t.num * z.square.den
          /\ Rounding(z) = 0 - 1

\* A spike is critical from z > 2 on.
SpikePriorityAtTwo(z) == IF ZAbove(z, Rat(2, 1)) THEN CRITICAL ELSE HIGH

\* Line 187: the priority of a spike.
SpikePriority(z) == IF ZAbove(z, Rat(3, 1)) THEN CRITICAL ELSE HIGH

\* Lines 163-219: one iteration of the loop over the ingredient columns.
AnomalyColumn(column, std_threshold, clock) ==
    LET ingredient == column.ingredient
        usage == column.usage
    IN  IF Len(usage) < 3 THEN Skipped
        ELSE IF StdIsZero(usage) THEN Skipped
        ELSE LET latest == Latest(usage)
                 z_score == Rounded(ZScore(usage), column)
             IN  [alerts |->
                    IF ZAbove(z_score, std_threshold)
                    THEN <<[ingredient |-> ingredient,
                            category |-> CONSUMPTION_SPIKE,
                            priority |-> SpikePriority(z_score),
                            current_value |-> latest,
                            average_value |-> Mean(usage),
                            z_score |-> z_score,
                            timestamp |-> clock]>>
                    ELSE IF ZBelowMinus(z_score, std_threshold)
                    THEN <<[ingredient |-> ingredient,
                            category |-> CONSUMPTION_DROP,
                            priority |-> MEDIUM,
                            current_value |-> latest,
                            average_value |-> Mean(usage),
                            z_score |-> AbsZ(z_score),
                            timestamp |-> clock]>>
                    ELSE <<>>,
                  divisors |-> <<[ingredient |-> ingredient,
                                  divisor |-> ScaledSquares(usage)]>>]

RECURSIVE AnomalyColumns(_, _, _)
AnomalyColumns(columns, std_threshold, clock) ==
    IF columns = <<>> THEN Skipped
    ELSE LET first == AnomalyColumn(Head(columns), std_threshold, clock)
             rest == AnomalyColumns(Tail(columns), std_threshold, clock)
         IN  [alerts |-> first.alerts \o rest.alerts,
              divisors |-> first.divisors \o rest.divisors]

\* consumption_df.empty: no month (or no column at all)
IsEmptyConsumption(df) == df.months = 0

\* detect_consumption_anomalies(consumption_df, std_threshold), lines 143-221
detect_consumption_anomalies(df, std_threshold, clock) ==
    IF IsEmptyConsumption(df) \/ df.months < 3 THEN Outcome(Skipped)
    ELSE Outcome(AnomalyColumns(df.columns, std_threshold, clock))

-----------------------------------------------------------------------------
(* Arguments                                                               *)

\* The default of detect_stockout_risk's timeframes, line 35
DefaultTimeframes == <<3, 7, 14>>

\* The default of detect_overstock's threshold_days, line 95
DefaultThresholdDays == 60

\* The days a timeframe list is made of.
TimeframeChoices == {3, 7, 14}

RECURSIVE ListsOfLength(_, _)
ListsOfLength(S, n) ==
    IF n = 0 THEN { <<>> }
    ELSE { Append(l, x) : l \in ListsOfLength(S, n - 1), x \in S }

ListsUpTo(S, n) == UNION { ListsOfLength(S, k) : k \in 0..n }

\* Timeframe lists of any order, duplicates allowed, and the default list.
TimeframeLists == ListsUpTo(TimeframeChoices, MaxTimeframes) \cup {DefaultTimeframes}

\* The threshold_days detect_overstock is called with.
ThresholdChoices == {30, DefaultThresholdDays, 100}

\* The default of detect_consumption_anomalies' std_threshold, line 144
DefaultStdThreshold == Rat(2, 1)

\* The std_threshold detect_consumption_anomalies is called with: 1.0, 1.5, 2.0.
StdThresholdChoices == {Rat(1, 1), Rat(3, 2), DefaultStdThreshold}

\* consumption_df = None
NoConsumption == [is_none |-> TRUE, months |-> 0, columns |-> <<>>]

\* A consumption table of n months with the given ingredient columns.
ConsumptionTable(n, columns) == [is_none |-> FALSE, months |-> n, columns |-> columns]

Column(ingredient, usage) == [ingredient |-> ingredient, usage |-> usage]

\* A series of n months that is flat, ends in a spike, or ends in a drop.
SeriesKinds == {"flat", "spike", "drop"}

Series(kind, n) ==
    [i \in 1..n |->
        IF kind = "flat" THEN 5
        ELSE IF kind = "spike" THEN (IF i = n THEN 3 ELSE 0)
        ELSE (IF i = n THEN 0 ELSE 3)]

\* The monthly consumption of the free column.
ConsumptionValues == {0, 1}

\* Tables of up to MaxMonths months: a first column of one of the kinds and a
\* second column of any values, and the tables without ingredient columns.
AnomalyTables ==
    { ConsumptionTable(Len(usage),
                       <<Column(IngredientNames[1], Series(kind, Len(usage))),
                         Column(IngredientNames[2], usage)>>) :
        kind \in SeriesKinds, usage \in ListsUpTo(ConsumptionValues, MaxMonths) }
    \cup { ConsumptionTable(n, <<>>) : n \in 0..MaxMonths }

-----------------------------------------------------------------------------
(* generate_all_alerts and the summary                                     *)

Priorities == {CRITICAL, HIGH, MEDIUM, LOW, INFO}

\* An order that ranks medium before high.
PriorityRankMediumFirst(alert) ==
    LET priority == alert.priority
    IN  IF priority = CRITICAL THEN 0
        ELSE IF priority = MEDIUM THEN 1
        ELSE IF priority = HIGH THEN 2
        ELSE IF priority = LOW THEN 3
        ELSE IF priority = INFO THEN 4
        ELSE 999

\* priority_order.get(x['priority'], 999), lines 322-330
PriorityRank(alert) ==
    LET priority == alert.priority
    IN  IF priority = CRITICAL THEN 0
        ELSE IF priority = HIGH THEN 1
        ELSE IF priority = MEDIUM THEN 2
        ELSE IF priority = LOW THEN 3
        ELSE IF priority = INFO THEN 4
        ELSE 999

\* An insertion that puts x before the alerts of its own rank.
InsertBeforeEqual(sorted, x) ==
    LET k == Cardinality({i \in 1..Len(sorted) :
                            PriorityRank(sorted[i]) < PriorityRank(x)})
    IN  SubSeq(sorted, 1, k) \o <<x>> \o SubSeq(sorted, k + 1, Len(sorted))

\* list.sort is stable: x goes behind every alert of a rank up to its own.
InsertByRank(sorted, x) ==
    LET k == Cardinality({i \in 1..Len(sorted) :
                            PriorityRank(sorted[i]) <= PriorityRank(x)})
    IN  SubSeq(sorted, 1, k) \o <<x>> \o SubSeq(sorted, k + 1, Len(sorted))

RECURSIVE SortPrefix(_, _)
SortPrefix(list, k) ==
    IF k = 0 THEN <<>>
    ELSE LET sorted == SortPrefix(list, k - 1)
         IN  InsertByRank(sorted, list[k])

\* A list left as the detectors appended it.
LeftUnsorted(list) == list

\* all_alerts.sort(key=...), line 330
SortByPriority(list) == SortPrefix(list, Len(list))

\* Lines 318-319: the anomaly pass runs on a table that is given and not empty.
RunsAnomalyPass(cdf) == ~cdf.is_none /\ ~IsEmptyConsumption(cdf)

\* The overstock pass run with the 30 days of line 122 as its threshold.
DetectorPassesOverstockAtThirty(df, cdf, clock) ==
    <<detect_stockout_risk(df, DefaultTimeframes, clock),
      detect_overstock(df, 30, clock),
      detect_optimal_reorder_timing(df, clock)>>
    \o (IF RunsAnomalyPass(cdf)
        THEN <<detect_consumption_anomalies(cdf, DefaultStdThreshold, clock)>>
        ELSE <<>>)

\* Lines 306-319: the detector passes in the order their outputs are appended.
DetectorPasses(df, cdf, clock) ==
    <<detect_stockout_risk(df, DefaultTimeframes, clock),
      detect_overstock(df, DefaultThresholdDays, clock),
      detect_optimal_reorder_timing(df, clock)>>
    \o (IF RunsAnomalyPass(cdf)
        THEN <<detect_consumption_anomalies(cdf, DefaultStdThreshold, clock)>>
        ELSE <<>>)

RECURSIVE Extend(_, _)
Extend(passes, k) ==
    IF k = 0 THEN Outcome(Skipped)
    ELSE LET before == Extend(passes, k - 1)
         IN  [ret |-> before.ret \o passes[k].ret,
              raised |-> before.raised \/ passes[k].raised,
              divisors |-> before.divisors \o passes[k].divisors]

\* generate_all_alerts(inventory_df, consumption_df), lines 294-333: the list
\* it returns and stores (a pass that raises ends the call).
generate_all_alerts(df, cdf, clock) ==
    LET passes == DetectorPasses(df, cdf, clock)
        all_alerts == Extend(passes, Len(passes))
    IN  [ret |-> IF all_alerts.raised THEN <<>> ELSE SortByPriority(all_alerts.ret),
         raised |-> all_alerts.raised,
         divisors |-> all_alerts.divisors]

\* A category counted twice when first seen.
CountCategoryFromOne(by_category, category) ==
    LET known == IF category \in DOMAIN by_category
                 THEN by_category
                 ELSE [c \in DOMAIN by_category \cup {category} |->
                         IF c \in DOMAIN by_category THEN by_category[c] ELSE 1]
    IN  [known EXCEPT ![category] = @ + 1]

\* Lines 367-369: the count of a category, entered with 0 when first seen.
CountCategory(by_category, category) ==
    LET known == IF category \in DOMAIN by_category
                 THEN by_category
                 ELSE [c \in DOMAIN by_category \cup {category} |->
                         IF c \in DOMAIN by_category THEN by_category[c] ELSE 0]
    IN  [known EXCEPT ![category] = @ + 1]

\* Lines 364-365: the count of a priority, when it is one of the five.
CountPriority(by_priority, priority) ==
    IF priority \in DOMAIN by_priority
    THEN [by_priority EXCEPT ![priority] = @ + 1]
    ELSE by_priority

\* Lines 360-369: the loop over the alerts.
RECURSIVE SummaryLoop(_, _)
SummaryLoop(list, k) ==
    IF k = 0
    THEN [total |-> Len(list),
          by_priority |-> [p \in Priorities |-> 0],
          by_category |-> [c \in {} |-> 0]]
    ELSE LET summary == SummaryLoop(list, k - 1)
             priority == Get(list[k], "priority", INFO)
             category == Get(list[k], "category", "unknown")
         IN  [total |-> summary.total,
              by_priority |-> CountPriority(summary.by_priority, priority),
              by_category |-> CountCategory(summary.by_category, category)]

\* No list given read as the empty list.
AlertsOrEmpty(given, stored) == IF given.is_none THEN <<>> ELSE given.list

\* Lines 345-346: alerts = self.alerts when no list is given.
AlertsOrStored(given, stored) == IF given.is_none THEN stored ELSE given.list

\* get_alert_summary(alerts), lines 335-371
get_alert_summary(given, stored) ==
    LET list == AlertsOrStored(given, stored)
    IN  [ret |-> SummaryLoop(list, Len(list)), raised |-> FALSE, divisors |-> <<>>]

-----------------------------------------------------------------------------
(* get_actionable_insights, lines 380-411.  A line of the result is kept   *)
(* as the values its f-string prints.                                      *)

\* Line 393: the stockout alerts of priority critical or high.
IsUrgentStockout(a) ==
    /\ Get(a, "category", "None") = STOCKOUT
    /\ Get(a, "priority", "None") \in {CRITICAL, HIGH}

\* Line 394
IsOverstockAlert(a) == Get(a, "category", "None") = OVERSTOCK

\* Line 395
IsSpikeAlert(a) == Get(a, "category", "None") = CONSUMPTION_SPIKE

\* Every alert of the list named.
AllOf(list) == list

\* Line 398: stockout_alerts[:3]
FirstThree(list) == SubSeq(list, 1, IF Len(list) < 3 THEN Len(list) ELSE 3)

\* Line 398: the ingredients of the alerts named in the line.
Ingredients(list) == [i \in 1..Len(list) |-> list[i].ingredient]

\* Line 402: sum(a.get('excess_amount', 0) for a in overstock_alerts)
RECURSIVE TotalExcess(_, _)
TotalExcess(list, k) ==
    IF k = 0 THEN 0
    ELSE LET rest == TotalExcess(list, k - 1)
         IN  rest + Get(list[k], "excess_amount", 0)

\* Line 403: the format :.0f prints the nearest whole number, the even one of
\* two equally near.
FormatWhole(q) ==
    LET floor == q.num \div q.den
        rest == q.num - floor * q.den
    IN  IF 2 * rest < q.den THEN floor
        ELSE IF 2 * rest > q.den THEN floor + 1
        ELSE IF floor % 2 = 0 THEN floor ELSE floor + 1

\* Lines 397-399
UrgentLine(stockout_alerts) ==
    IF stockout_alerts # <<>>
    THEN << [kind |-> "urgent", count |-> Len(stockout_alerts),
             ingredients |-> Ingredients(FirstThree(stockout_alerts))] >>
    ELSE <<>>

\* Lines 401-403
OverstockLine(overstock_alerts) ==
    IF overstock_alerts # <<>>
    THEN LET total_excess == TotalExcess(overstock_alerts, Len(overstock_alerts))
         IN  << [kind |-> "overstock",
                 amount |-> FormatWhole(Rat(total_excess * 10, 1))] >>
    ELSE <<>>

\* Lines 405-406
SpikeLine(spike_alerts) ==
    IF spike_alerts # <<>>
    THEN << [kind |-> "spike", count |-> Len(spike_alerts)] >>
    ELSE <<>>

\* Lines 408-409: the line of an instance with nothing to act on.
OptimalLine == [kind |-> "optimal"]

\* get_actionable_insights(alerts), lines 380-411
get_actionable_insights(given, stored) ==
    LET list == AlertsOrStored(given, stored)
        stockout_alerts == SelectSeq(list, IsUrgentStockout)
        overstock_alerts == SelectSeq(list, IsOverstockAlert)
        spike_alerts == SelectSeq(list, IsSpikeAlert)
        insights == UrgentLine(stockout_alerts) \o OverstockLine(overstock_alerts)
                        \o SpikeLine(spike_alerts)
    IN  [ret |-> IF insights = <<>> THEN <<OptimalLine>> ELSE insights,
         raised |-> FALSE, divisors |-> <<>>]

-----------------------------------------------------------------------------
(* The instance and the calls made on it                                   *)

\* alerts = None
NoAlertsArg == [is_none |-> TRUE, list |-> <<>>]

\* No function of the other modules is called.
NoArgument == <<>>

\* The record of a call: the operation, its argument, the time of the call,
\* what it returned, whether it raised instead, and the divisors it divided by.
Call(op, arg, clock, outcome) ==
    [op |-> op, arg |-> arg, at |-> clock, ret |-> outcome.ret,
     raised |-> outcome.raised, divisors |-> outcome.divisors]

\* AlertIntelligence.__init__, lines 31-32
Constructed ==
    /\ alerts = <<>>
    /\ now = 0
    /\ call = Call("__init__", <<>>, 0, Outcome(Skipped))

DetectStockoutRisk(timeframes) ==
    /\ call' = Call("detect_stockout_risk", timeframes, now,
                    detect_stockout_risk(inventory_df, timeframes, now))
    /\ UNCHANGED <<inputs, alerts, now>>

DetectOverstock(threshold_days) ==
    /\ call' = Call("detect_overstock", threshold_days, now,
                    detect_overstock(inventory_df, threshold_days, now))
    /\ UNCHANGED <<inputs, alerts, now>>

DetectOptimalReorderTiming ==
    /\ call' = Call("detect_optimal_reorder_timing", <<>>, now,
                    detect_optimal_reorder_timing(inventory_df, now))
    /\ UNCHANGED <<inputs, alerts, now>>

DetectConsumptionAnomalies(std_threshold) ==
    /\ call' = Call("detect_consumption_anomalies", std_threshold, now,
                    detect_consumption_anomalies(consumption_df, std_threshold, now))
    /\ UNCHANGED <<inputs, alerts, now>>

\* generate_all_alerts stores the list it returns (line 332); a call that
\* raises stores nothing.
GenerateAllAlerts ==
    LET outcome == generate_all_alerts(inventory_df, consumption_df, now)
    IN  /\ call' = Call("generate_all_alerts", <<>>, now, outcome)
        /\ alerts' = IF outcome.raised THEN alerts ELSE outcome.ret
        /\ UNCHANGED <<inputs, now>>

GetAlertSummary ==
    /\ call' = Call("get_alert_summary", alerts_arg, now,
                    get_alert_summary(alerts_arg, alerts))
    /\ UNCHANGED <<inputs, alerts, now>>

GetActionableInsights ==
    /\ call' = Call("get_actionable_insights", alerts_arg, now,
                    get_actionable_insights(alerts_arg, alerts))
    /\ UNCHANGED <<inputs, alerts, now>>

\* Time passes between two calls.
Tick ==
    /\ now < MaxClock
    /\ now' = now + 1
    /\ UNCHANGED <<inputs, alerts, call>>

-----------------------------------------------------------------------------
(* The inventory detectors called on any inventory table                   *)

InitDetectors ==
    /\ inventory_df \in InventoryTables
    /\ consumption_df = NoConsumption
    /\ alerts_arg = NoAlertsArg
    /\ argument = NoArgument
    /\ Constructed

NextDetectors ==
    \/ DetectStockoutRisk(DefaultTimeframes)
    \/ \E threshold_days \in ThresholdChoices : DetectOverstock(threshold_days)
    \/ DetectOptimalReorderTiming

SpecDetectors == InitDetectors /\ [][NextDetectors]_vars

-----------------------------------------------------------------------------
(* detect_stockout_risk called with any timeframe list                     *)

InitStockout ==
    /\ inventory_df \in StockTables
    /\ consumption_df = NoConsumption
    /\ alerts_arg = NoAlertsArg
    /\ argument = NoArgument
    /\ Constructed

NextStockout ==
    \E timeframes \in TimeframeLists : DetectStockoutRisk(timeframes)

SpecStockout == InitStockout /\ [][NextStockout]_vars

-----------------------------------------------------------------------------
(* detect_consumption_anomalies called on any consumption table            *)

InitAnomaly ==
    /\ inventory_df = <<>>
    /\ consumption_df \in AnomalyTables
    /\ alerts_arg = NoAlertsArg
    /\ argument = NoArgument
    /\ Constructed

NextAnomaly ==
    \E std_threshold \in StdThresholdChoices :
        DetectConsumptionAnomalies(std_threshold)

SpecAnomaly == InitAnomaly /\ [][NextAnomaly]_vars

-----------------------------------------------------------------------------
(* The alert engine as the alerts page uses it: runs of generate_all_alerts *)
(* on an inventory table and a consumption table, and the summary of the   *)
(* stored alerts.                                                          *)

\* Consumption tables: none, an empty one, one too short, one with a high spike
\* and a drop, one with a critical spike.
SampleConsumption ==
    { NoConsumption,
      ConsumptionTable(0, <<>>),
      ConsumptionTable(2, <<Column(IngredientNames[1], Series("spike", 2))>>),
      ConsumptionTable(6, <<Column(IngredientNames[1], Series("spike", 6)),
                            Column(IngredientNames[2], Series("drop", 6))>>),
      ConsumptionTable(11, <<Column(IngredientNames[1], Series("flat", 11)),
                             Column(IngredientNames[2], Series("spike", 11))>>) }

Init ==
    /\ inventory_df \in MultiRowTables
    /\ consumption_df \in SampleConsumption
    /\ alerts_arg = NoAlertsArg
    /\ argument = NoArgument
    /\ Constructed

Next ==
    \/ GenerateAllAlerts
    \/ GetAlertSummary
    \/ Tick

Spec == Init /\ [][Next]_vars

-----------------------------------------------------------------------------
(* get_alert_summary called on any list of alerts, or on the alerts a run  *)
(* has stored                                                              *)

\* The priority and the category of an alert a caller hands over: a dict may
\* carry a priority that is none of the five levels, or lack the key.
GivenPriorities == Priorities \cup {"urgent", "(no key)"}
GivenCategories == {STOCKOUT, OVERSTOCK, "(no key)"}

GivenAlert(priority, category) ==
    IF priority = "(no key)"
    THEN (IF category = "(no key)"
          THEN [ingredient |-> IngredientNames[1]]
          ELSE [ingredient |-> IngredientNames[1], category |-> category])
    ELSE (IF category = "(no key)"
          THEN [ingredient |-> IngredientNames[1], priority |-> priority]
          ELSE [ingredient |-> IngredientNames[1], priority |-> priority,
                category |-> category])

GivenAlerts ==
    { GivenAlert(p, c) : p \in GivenPriorities, c \in GivenCategories }

\* The lists a caller hands to get_alert_summary.
GivenLists ==
    { [is_none |-> FALSE, list |-> l] : l \in ListsUpTo(GivenAlerts, MaxAlertArgs) }

InitSummary ==
    /\ \/ /\ inventory_df = <<>>
          /\ alerts_arg \in GivenLists
       \/ /\ inventory_df \in MultiRowTables
          /\ alerts_arg = NoAlertsArg
    /\ consumption_df \in { NoConsumption,
                            ConsumptionTable(6, <<Column(IngredientNames[1],
                                                         Series("spike", 6))>>) }
    /\ argument = NoArgument
    /\ Constructed

NextSummary ==
    \/ GenerateAllAlerts
    \/ GetAlertSummary

SpecSummary == InitSummary /\ [][NextSummary]_vars

-----------------------------------------------------------------------------
(* get_actionable_insights called on any list of alerts, or on the alerts  *)
(* a run has stored                                                        *)

\* The alerts a caller hands to get_actionable_insights: what they carry of
\* the keys the method reads.  The name of an alert follows from its place in
\* the list, so that the alerts named in a line tell which ones were taken.
InsightShapes ==
    { [priority |-> CRITICAL, category |-> STOCKOUT],
      [priority |-> HIGH, category |-> STOCKOUT],
      [priority |-> MEDIUM, category |-> STOCKOUT],
      [priority |-> LOW, category |-> OVERSTOCK, excess_amount |-> 3],
      [priority |-> INFO, category |-> OVERSTOCK],
      [priority |-> HIGH, category |-> CONSUMPTION_SPIKE],
      [priority |-> MEDIUM, category |-> REORDER_TIMING] }

NameAt(i) == IngredientNames[((i - 1) % Len(IngredientNames)) + 1]

Named(shape, i) ==
    [k \in DOMAIN shape \cup {"ingredient"} |->
        IF k = "ingredient" THEN NameAt(i) ELSE shape[k]]

InsightLists ==
    { [is_none |-> FALSE, list |-> [i \in 1..Len(l) |-> Named(l[i], i)]] :
        l \in ListsUpTo(InsightShapes, MaxInsightAlerts) }

InitInsights ==
    /\ \/ /\ inventory_df = <<>>
          /\ consumption_df = NoConsumption
          /\ alerts_arg \in InsightLists
       \/ /\ inventory_df \in MultiRowTables
          /\ consumption_df \in SampleConsumption
          /\ alerts_arg = NoAlertsArg
    /\ argument = NoArgument
    /\ Constructed

NextInsights ==
    \/ GenerateAllAlerts
    \/ GetActionableInsights

SpecInsights == InitInsights /\ [][NextInsights]_vars

-----------------------------------------------------------------------------
(* The inventory metrics: DataProcessor.calculate_inventory_metrics        *)
(* (data_processor.py lines 160-180) and the status and the days of stock  *)
(* the inventory page computes for each row (pages/2 Inventory, lines      *)
(* 91-102).                                                                *)

\* The overstock test made before the reorder test.
StatusOverstockFirst(current_stock, avg_daily_usage, reorder_point) ==
    IF current_stock > avg_daily_usage * 60 THEN "Overstock"
    ELSE IF current_stock < reorder_point THEN "Low - Reorder Now"
    ELSE "Normal"

\* data_processor.py lines 168-172
MetricsStatus(current_stock, avg_daily_usage, reorder_point) ==
    IF current_stock < reorder_point THEN "Low - Reorder Now"
    ELSE IF current_stock > avg_daily_usage * 60 THEN "Overstock"
    ELSE "Normal"

\* data_processor.py line 166
MetricsDaysOfStock(current_stock, avg_daily_usage) ==
    IF avg_daily_usage > 0 THEN Rat(current_stock, avg_daily_usage) ELSE Rat(0, 1)

\* data_processor.py line 177
UtilizationRate(current_stock, avg_daily_usage) ==
    IF current_stock > 0
    THEN Rat(avg_daily_usage * 30 * 100, current_stock)
    ELSE Rat(0, 1)

\* DataProcessor.calculate_inventory_metrics, data_processor.py lines 160-180
calculate_inventory_metrics(current_stock, avg_daily_usage, reorder_point) ==
    [ret |-> [days_of_stock |-> MetricsDaysOfStock(current_stock, avg_daily_usage),
              status |-> MetricsStatus(current_stock, avg_daily_usage, reorder_point),
              utilization_rate |-> UtilizationRate(current_stock, avg_daily_usage)],
     raised |-> FALSE,
     divisors |-> (IF avg_daily_usage > 0 THEN <<avg_daily_usage>> ELSE <<>>)
                      \o (IF current_stock > 0 THEN <<current_stock>> ELSE <<>>)]

\* The overstock test made before the reorder test.
get_status_overstock_first(row) ==
    IF row.current_stock > row.avg_daily_usage * 60 THEN "Overstock"
    ELSE IF row.current_stock < row.reorder_point THEN "Low Stock"
    ELSE "Normal"

\* get_status(row), pages/2 Inventory lines 91-97
get_status(row) ==
    IF row.current_stock < row.reorder_point THEN "Low Stock"
    ELSE IF row.current_stock > row.avg_daily_usage * 60 THEN "Overstock"
    ELSE "Normal"

\* What numpy's division of two float columns gives where the divisor is 0:
\* no error, but inf, -inf or nan.
Infinity == [num |-> 1, den |-> 0]
MinusInfinity == [num |-> 0 - 1, den |-> 0]
NotANumber == [num |-> 0, den |-> 0]

SeriesDivide(a, b) ==
    IF b # 0 THEN Rat(a, b)
    ELSE IF a > 0 THEN Infinity
    ELSE IF a < 0 THEN MinusInfinity
    ELSE NotANumber

\* Series.round(1): the nearest multiple of 0.1, the even one of two equally
\* near; inf and nan stay.
RoundTo1(q) ==
    IF q.den = 0 THEN q ELSE Rat(FormatWhole(Rat(q.num * 10, q.den)), 10)

\* pages/2 Inventory line 102
days_of_stock(row) == RoundTo1(SeriesDivide(row.current_stock, row.avg_daily_usage))

\* The status and the days of stock of a row, pages/2 Inventory lines 91-102
inventory_status(row) ==
    [ret |-> [status |-> get_status(row), days_of_stock |-> days_of_stock(row)],
     raised |-> FALSE,
     divisors |-> <<row.avg_daily_usage>>]

CalculateInventoryMetrics ==
    /\ call' = Call("calculate_inventory_metrics", argument, now,
                    calculate_inventory_metrics(argument.current_stock,
                                                argument.avg_daily_usage,
                                                argument.reorder_point))
    /\ UNCHANGED <<inputs, alerts, now>>

InventoryStatus ==
    /\ call' = Call("inventory_status", argument, now, inventory_status(argument))
    /\ UNCHANGED <<inputs, alerts, now>>

\* No table is handed to the alert engine.
NoTables ==
    /\ inventory_df = <<>>
    /\ consumption_df = NoConsumption
    /\ alerts_arg = NoAlertsArg

\* The scenario of the specification: usage 10, stock 5, reorder point 20.
MetricsScenario == [current_stock |-> 5, avg_daily_usage |-> 10, reorder_point |-> 20]

MetricsArguments ==
    [current_stock : 0..MaxMetricStock, avg_daily_usage : 0..MaxUsage,
     reorder_point : 0..MaxReorderPoint] \cup {MetricsScenario}

InitMetrics ==
    /\ NoTables
    /\ argument \in MetricsArguments
    /\ Constructed

NextMetrics ==
    \/ CalculateInventoryMetrics
    \/ InventoryStatus

SpecMetrics == InitMetrics /\ [][NextMetrics]_vars

-----------------------------------------------------------------------------
(* DataProcessor.frequency_to_days, data_processor.py lines 145-158.  A    *)
(* string is the sequence of its characters.                               *)

UpperCase ==
    <<"A", "B", "C", "D", "E", "F", "G", "H", "I", "J", "K", "L", "M",
      "N", "O", "P", "Q", "R", "S", "T", "U", "V", "W", "X", "Y", "Z">>

LowerCase ==
    <<"a", "b", "c", "d", "e", "f", "g", "h", "i", "j", "k", "l", "m",
      "n", "o", "p", "q", "r", "s", "t", "u", "v", "w", "x", "y", "z">>

\* The characters str.strip() removes, of those a frequency is written with.
Whitespace == {" ", "\t", "\n"}

\* str.lower(): every upper-case letter becomes its lower-case letter.
LowerChar(c) ==
    IF \E k \in 1..Len(UpperCase) : UpperCase[k] = c
    THEN LowerCase[CHOOSE k \in 1..Len(UpperCase) : UpperCase[k] = c]
    ELSE c

lower(s) == [i \in 1..Len(s) |-> LowerChar(s[i])]

\* str.strip(): the string without the whitespace at its two ends.
RECURSIVE lstrip(_)
lstrip(s) ==
    IF s # <<>> /\ Head(s) \in Whitespace THEN lstrip(Tail(s)) ELSE s

RECURSIVE rstrip(_)
rstrip(s) ==
    IF s # <<>> /\ s[Len(s)] \in Whitespace
    THEN rstrip(SubSeq(s, 1, Len(s) - 1))
    ELSE s

\* The string left as it is.
NoStrip(s) == s

strip(s) == rstrip(lstrip(s))

\* Lines 149-156: freq_mapping, a dict from the frequency to the days
freq_mapping ==
    LET daily == <<"d", "a", "i", "l", "y">>
        weekly == <<"w", "e", "e", "k", "l", "y">>
        biweekly == <<"b", "i", "w", "e", "e", "k", "l", "y">>
        bi_weekly == <<"b", "i", "-", "w", "e", "e", "k", "l", "y">>
        monthly == <<"m", "o", "n", "t", "h", "l", "y">>
        quarterly == <<"q", "u", "a", "r", "t", "e", "r", "l", "y">>
    IN  [key \in {daily, weekly, biweekly, bi_weekly, monthly, quarterly} |->
            IF key = daily THEN 1
            ELSE IF key = weekly THEN 7
            ELSE IF key \in {biweekly, bi_weekly} THEN 14
            ELSE IF key = monthly THEN 30
            ELSE 90]

\* DataProcessor.frequency_to_days, lines 145-158
frequency_to_days(frequency) ==
    LET key == strip(lower(frequency))
    IN  IF key \in DOMAIN freq_mapping THEN freq_mapping[key] ELSE 30

FrequencyToDays ==
    /\ call' = Call("frequency_to_days", argument, now,
                    [ret |-> frequency_to_days(argument.frequency),
                     raised |-> FALSE, divisors |-> <<>>])
    /\ UNCHANGED <<inputs, alerts, now>>

\* The frequencies of the shipment table, as a file may write them: a word in
\* lower case, in upper case or capitalised, with whitespace around it.
FrequencyWords ==
    { <<"d", "a", "i", "l", "y">>,
      <<"w", "e", "e", "k", "l", "y">>,
      <<"b", "i", "w", "e", "e", "k", "l", "y">>,
      <<"b", "i", "-", "w", "e", "e", "k", "l", "y">>,
      <<"m", "o", "n", "t", "h", "l", "y">>,
      <<"q", "u", "a", "r", "t", "e", "r", "l", "y">>,
      <<"y", "e", "a", "r", "l", "y">>,
      <<"b", "i", " ", "w", "e", "e", "k", "l", "y">>,
      <<"w", "e", "e", "k">>,
      <<>> }

UpperChar(c) ==
    IF \E k \in 1..Len(LowerCase) : LowerCase[k] = c
    THEN UpperCase[CHOOSE k \in 1..Len(LowerCase) : LowerCase[k] = c]
    ELSE c

Casings == {"lower", "UPPER", "Capitalised"}

Cased(word, casing) ==
    [i \in 1..Len(word) |->
        IF casing = "UPPER" \/ (casing = "Capitalised" /\ i = 1)
        THEN UpperChar(word[i])
        ELSE word[i]]

\* The whitespace at an end of a written frequency.
Paddings == { <<>>, <<" ">>, <<"\n">>, <<"\t", " ">> }

Written(word, casing, left, right) == left \o Cased(word, casing) \o right

FrequencyStrings ==
    { Written(word, casing, left, right) :
        word \in FrequencyWords, casing \in Casings,
        left \in Paddings, right \in Paddings }

InitFrequency ==
    /\ NoTables
    /\ argument \in [frequency : FrequencyStrings]
    /\ Constructed

NextFrequency == FrequencyToDays

SpecFrequency == InitFrequency /\ [][NextFrequency]_vars

-----------------------------------------------------------------------------
(* DataProcessor.calculate_reorder_point called on any usage, lead time    *)
(* and safety stock                                                        *)

CalculateReorderPoint ==
    /\ call' = Call("calculate_reorder_point", argument, now,
                    [ret |-> calculate_reorder_point(argument.avg_daily_usage,
                                                     argument.lead_time_days,
                                                     argument.safety_stock),
                     raised |-> FALSE, divisors |-> <<>>])
    /\ UNCHANGED <<inputs, alerts, now>>

SafetyStocks ==
    {NoSafetyStock} \cup { SafetyStock(value) : value \in (0 - 1)..MaxSafetyStock }

InitReorderPoint ==
    /\ NoTables
    /\ argument \in [avg_daily_usage : UsageValues,
                     lead_time_days : (0 - 1)..MaxLeadTime,
                     safety_stock : SafetyStocks]
    /\ Constructed

NextReorderPoint == CalculateReorderPoint

SpecReorderPoint == InitReorderPoint /\ [][NextReorderPoint]_vars

-----------------------------------------------------------------------------
(* A row of the inventory page, pages/2 Inventory lines 82-102: the lead   *)
(* time of its frequency, its reorder point with the default safety stock, *)
(* its status and its days of stock.  The usage and the stock of the row   *)
(* are given.                                                              *)

inventory_row(frequency, current_stock, avg_daily_usage) ==
    LET lead_time_days == frequency_to_days(frequency)
        reorder_point ==
            calculate_reorder_point(avg_daily_usage, lead_time_days, NoSafetyStock)
        row == [frequency |-> frequency, current_stock |-> current_stock,
                avg_daily_usage |-> avg_daily_usage,
                lead_time_days |-> lead_time_days,
                reorder_point |-> reorder_point]
    IN  [ret |-> [lead_time_days |-> lead_time_days,
                  reorder_point |-> reorder_point,
                  status |-> get_status(row),
                  days_of_stock |-> days_of_stock(row)],
         raised |-> FALSE,
         divisors |-> <<avg_daily_usage>>]

InventoryRow ==
    /\ call' = Call("inventory_row", argument, now,
                    inventory_row(argument.frequency, argument.current_stock,
                                  argument.avg_daily_usage))
    /\ UNCHANGED <<inputs, alerts, now>>

InitInventoryPage ==
    /\ NoTables
    /\ argument \in [frequency : FrequencyWords, current_stock : 0..MaxMetricStock,
                     avg_daily_usage : 0..MaxUsage]
    /\ Constructed

NextInventoryPage == InventoryRow

SpecInventoryPage == InitInventoryPage /\ [][NextInventoryPage]_vars

-----------------------------------------------------------------------------
(* calculate_ingredient_consumption, pages/6 Intelligent Alerts lines      *)
(* 96-163 (pages/3 Analytics lines 67-137 is the same function but for the *)
(* guard on the tracked ingredients).  An item name and a dish name are    *)
(* sequences of characters: letters, blanks, "." and "*".                  *)

\* Lines 115-132: ingredient_mapping, from the recipe column to the ingredient
MappingPairs ==
    { <<"braised beef used (g)", "Beef">>, <<"Braised Chicken(g)", "Chicken">>,
      <<"Braised Pork(g)", "Pork">>, <<"Egg(count)", "Egg">>,
      <<"Rice(g)", "Rice">>, <<"Ramen (count)", "Ramen">>,
      <<"Rice Noodles(g)", "Rice Noodles">>, <<"flour (g)", "Flour">>,
      <<"Chicken Wings (pcs)", "Chicken Wings">>, <<"Green Onion", "Green Onion">>,
      <<"Cilantro", "Cilantro">>, <<"White onion", "White Onion">>,
      <<"Peas(g)", "Peas + Carrot">>, <<"Carrot(g)", "Peas + Carrot">>,
      <<"Boychoy(g)", "Bokchoy">>, <<"Tapioca Starch", "Tapioca Starch">> }

ingredient_mapping ==
    [recipe_col \in { pair[1] : pair \in MappingPairs } |->
        (CHOOSE pair \in MappingPairs : pair[1] = recipe_col)[2]]

\* A cell of a numeric column: a number, or NaN.
Number(value) == [is_nan |-> FALSE, value |-> value]
NaNCell == [is_nan |-> TRUE, value |-> 0]

\* fillna(0), lines 108-109 and data_processor.py lines 34-35
fillna(cell) == IF cell.is_nan THEN Number(0) ELSE cell

\* Lines 108-109: pd.to_numeric(sales_df['Count'], errors='coerce').fillna(0);
\* a count that is no number becomes NaN, then 0.
to_numeric(count) == IF count.parsable THEN Number(count.value) ELSE NaNCell

\* DataProcessor.clean_ingredient_data, data_processor.py lines 18-37: the
\* missing quantities of a recipe become 0.
clean_ingredient_data(recipe_df) ==
    [i \in 1..Len(recipe_df) |->
        [dish_name |-> recipe_df[i].dish_name,
         columns |-> [recipe_col \in DOMAIN recipe_df[i].columns |->
                         fillna(recipe_df[i].columns[recipe_col])]]]

\* str.split()[0]: the first whitespace-delimited token.
RECURSIVE UpToWhitespace(_)
UpToWhitespace(s) ==
    IF s = <<>> \/ Head(s) \in Whitespace
    THEN <<>>
    ELSE <<Head(s)>> \o UpToWhitespace(Tail(s))

FirstToken(s) == UpToWhitespace(lstrip(s))

\* Line 147: the sale lines that are skipped.
IsSkippedItem(item) == item.kind # "str" \/ strip(item.chars) = <<>>

\* Series.str.contains(pat, case=False, na=False) searches the regular
\* expression pat in the string.  Of the characters of the model, "." stands
\* for any character and "*" repeats the character before it; a "*" with
\* nothing to repeat makes re.compile raise re.error.
RegexError(pat) ==
    /\ pat # <<>>
    /\ \/ pat[1] = "*"
       \/ \E i \in 1..(Len(pat) - 1) : pat[i] = "*" /\ pat[i + 1] = "*"

\* case=False: a character of the pattern against a character of the string.
CharMatches(pc, c) == pc = "." \/ LowerChar(pc) = LowerChar(c)

RECURSIVE MatchHere(_, _)
RECURSIVE MatchStar(_, _, _)
MatchHere(pat, s) ==
    IF pat = <<>> THEN TRUE
    ELSE IF Len(pat) >= 2 /\ pat[2] = "*"
         THEN MatchStar(pat[1], SubSeq(pat, 3, Len(pat)), s)
    ELSE IF s # <<>> /\ CharMatches(pat[1], s[1])
         THEN MatchHere(Tail(pat), Tail(s))
    ELSE FALSE

MatchStar(pc, pat, s) ==
    \/ MatchHere(pat, s)
    \/ /\ s # <<>>
       /\ CharMatches(pc, s[1])
       /\ MatchStar(pc, pat, Tail(s))

\* re.search: the pattern matches somewhere in the string.
Contains(pat, s) ==
    \E i \in 1..(Len(s) + 1) : MatchHere(pat, SubSeq(s, i, Len(s)))

\* Line 150: recipe_match, the places of the recipes whose dish name contains
\* the first token of the item name, in the order of the recipe table.
RECURSIVE RecipeMatch(_, _, _)
RecipeMatch(recipe_clean, token, k) ==
    IF k = 0 THEN <<>>
    ELSE LET before == RecipeMatch(recipe_clean, token, k - 1)
         IN  IF Contains(token, recipe_clean[k].dish_name)
             THEN Append(before, k)
             ELSE before

\* Lines 155-159: the usage of one sale line added to the running totals of
\* the month, for the tracked ingredients only.
RECURSIVE UsageOf(_, _, _, _)
UsageOf(recipe, tracked_ing, quantity_sold, recipe_cols) ==
    IF recipe_cols = {} THEN 0
    ELSE LET recipe_col == CHOOSE c \in recipe_cols : TRUE
             rest == UsageOf(recipe, tracked_ing, quantity_sold,
                             recipe_cols \ {recipe_col})
         IN  IF /\ ingredient_mapping[recipe_col] = tracked_ing
                /\ recipe_col \in DOMAIN recipe.columns
                /\ ~recipe.columns[recipe_col].is_nan
             THEN rest + recipe.columns[recipe_col].value * quantity_sold
             ELSE rest

AddUsage(month_consumption, recipe, quantity_sold) ==
    [tracked_ing \in DOMAIN month_consumption |->
        month_consumption[tracked_ing]
            + UsageOf(recipe, tracked_ing, quantity_sold, DOMAIN ingredient_mapping)]

\* Lines 143-159: the loop over the sale lines of a month.
RECURSIVE MonthLoop(_, _, _, _, _)
MonthLoop(sales_df, recipe_clean, tracked_ingredients, month, k) ==
    IF k = 0
    THEN [raised |-> FALSE,
          consumption |-> [ing \in { tracked_ingredients[i] :
                                       i \in 1..Len(tracked_ingredients) } |-> 0]]
    ELSE LET before == MonthLoop(sales_df, recipe_clean, tracked_ingredients,
                                 month, k - 1)
             sale_row == sales_df[k]
             token == FirstToken(sale_row.item.chars)
             recipe_match == RecipeMatch(recipe_clean, token, Len(recipe_clean))
         IN  IF before.raised \/ sale_row.month # month \/ IsSkippedItem(sale_row.item)
             THEN before
             ELSE IF RegexError(token)
             THEN [raised |-> TRUE, consumption |-> before.consumption]
             ELSE IF recipe_match = <<>>
             THEN before
             ELSE [raised |-> FALSE,
                   consumption |->
                       AddUsage(before.consumption, recipe_clean[recipe_match[1]],
                                fillna(to_numeric(sale_row.count)).value)]

\* Line 136: sales_df['month'].unique(), the months in the order they first
\* appear.
RECURSIVE unique(_, _)
unique(sales_df, k) ==
    IF k = 0 THEN <<>>
    ELSE LET before == unique(sales_df, k - 1)
         IN  IF \E i \in 1..Len(before) : before[i] = sales_df[k].month
             THEN before
             ELSE Append(before, sales_df[k].month)

\* Lines 136-161: one row for each month.
ConsumptionRows(sales_df, recipe_clean, tracked_ingredients) ==
    LET months == unique(sales_df, Len(sales_df))
        rows == [i \in 1..Len(months) |->
                    MonthLoop(sales_df, recipe_clean, tracked_ingredients,
                              months[i], Len(sales_df))]
    IN  IF \E i \in 1..Len(rows) : rows[i].raised
        THEN [ret |-> <<>>, raised |-> TRUE, divisors |-> <<>>]
        ELSE [ret |-> [i \in 1..Len(months) |->
                          [month |-> months[i], consumption |-> rows[i].consumption]],
              raised |-> FALSE, divisors |-> <<>>]

\* pd.DataFrame()
EmptyFrame == [ret |-> <<>>, raised |-> FALSE, divisors |-> <<>>]

\* calculate_ingredient_consumption(sales_df, recipe_df, shipment_df),
\* pages/6 lines 96-163
calculate_ingredient_consumption(sales_df, recipe_df, tracked_ingredients) ==
    IF sales_df = <<>> \/ recipe_df = <<>> THEN EmptyFrame
    ELSE IF tracked_ingredients = <<>> THEN EmptyFrame
    ELSE ConsumptionRows(sales_df, clean_ingredient_data(recipe_df),
                         tracked_ingredients)

\* calculate_ingredient_consumption(sales_df, recipe_df, ingredient_list),
\* pages/3 lines 67-137
analytics_ingredient_consumption(sales_df, recipe_df, ingredient_list) ==
    IF sales_df = <<>> \/ recipe_df = <<>> THEN EmptyFrame
    ELSE ConsumptionRows(sales_df, clean_ingredient_data(recipe_df), ingredient_list)

CalculateIngredientConsumption ==
    /\ call' = Call("calculate_ingredient_consumption", argument, now,
                    calculate_ingredient_consumption(argument.sales_df,
                        argument.recipe_df, argument.tracked_ingredients))
    /\ UNCHANGED <<inputs, alerts, now>>

AnalyticsIngredientConsumption ==
    /\ call' = Call("analytics_ingredient_consumption", argument, now,
                    analytics_ingredient_consumption(argument.sales_df,
                        argument.recipe_df, argument.tracked_ingredients))
    /\ UNCHANGED <<inputs, alerts, now>>

\* The recipe tables of the model.  ScenarioRecipes is the scenario of the
\* specification; in MenuRecipes two dishes hold the word Ramen, one quantity
\* is missing and Beef is an ingredient that is not tracked.
ScenarioRecipes ==
    << [dish_name |-> <<"R", "a", "m", "e", "n", " ", "B", "o", "w", "l">>, columns |-> [c \in {"Ramen (count)"} |-> Number(1)]] >>

MenuRecipes ==
    << [dish_name |-> <<"B", "e", "e", "f", " ", "R", "a", "m", "e", "n">>,
        columns |-> [c \in {"braised beef used (g)", "Ramen (count)"} |->
                        IF c = "Ramen (count)" THEN Number(1) ELSE Number(5)]],
       [dish_name |-> <<"R", "a", "m", "e", "n", " ", "B", "o", "w", "l">>,
        columns |-> [c \in {"Ramen (count)", "Egg(count)"} |->
                        IF c = "Ramen (count)" THEN Number(2) ELSE NaNCell]],
       [dish_name |-> <<"F", "r", "i", "e", "d", " ", "R", "i", "c", "e">>,
        columns |-> [c \in {"Rice(g)", "Peas(g)", "Carrot(g)"} |->
                        IF c = "Rice(g)" THEN Number(3)
                        ELSE IF c = "Peas(g)" THEN Number(1) ELSE Number(4)]] >>

RecipeTables == { <<>>, ScenarioRecipes, MenuRecipes }

\* shipment_df['ingredient'].tolist(): Chicken is in no recipe of the model.
TrackedIngredients == <<"Ramen", "Egg", "Rice", "Peas + Carrot", "Chicken">>

\* The item names of the sale lines: strings, a missing name (NaN) and a name
\* that is a number.
Str(chars) == [kind |-> "str", chars |-> chars]

ItemNames ==
    { Str(<<"R", "a", "m", "e", "n", " ", "B", "o", "w", "l", " ", "S", "p", "e", "c", "i", "a", "l">>), Str(<<"r", "a", "m", "e", "n">>), Str(<<" ", "B", "E", "E", "F", " ", "n", "o", "o", "d", "l", "e">>), Str(<<"P", "h", "o">>), Str(<<"F", ".", " ", "R", "i", "c", "e">>),
      Str(<<"*", "S", "p", "e", "c", "i", "a", "l">>), Str(<<" ", " ">>),
      [kind |-> "nan", chars |-> <<>>],
      [kind |-> "number", chars |-> <<>>] }

Months == {"May", "June"}

Count(value) == [parsable |-> TRUE, value |-> value]

\* The sale lines: every item in every month with a count of 2, the line of
\* the scenario, and a line whose count is no number.
SaleRows ==
    { [month |-> month, item |-> item, count |-> Count(2)] :
        month \in Months, item \in ItemNames }
    \cup { [month |-> "May", item |-> Str(<<"R", "a", "m", "e", "n", " ", "B", "o", "w", "l", " ", "S", "p", "e", "c", "i", "a", "l">>), count |-> Count(30)],
           [month |-> "May", item |-> Str(<<"r", "a", "m", "e", "n">>),
            count |-> [parsable |-> FALSE, value |-> 0]] }

InitConsumption ==
    /\ NoTables
    /\ argument \in [sales_df : ListsUpTo(SaleRows, MaxSales),
                     recipe_df : RecipeTables,
                     tracked_ingredients : {TrackedIngredients, <<>>}]
    /\ Constructed

NextConsumption ==
    \/ CalculateIngredientConsumption
    \/ AnalyticsIngredientConsumption

SpecConsumption == InitConsumption /\ [][NextConsumption]_vars

-----------------------------------------------------------------------------
(* The forecasts, src/src/predictions.py, class InventoryPredictor.  A     *)
(* history is a sequence of numbers; a forecast is a sequence of exact     *)
(* fractions.                                                              *)

RatAdd(a, b) == Rat(a.num * b.den + b.num * a.den, a.den * b.den)

RatTimes(q, k) == Rat(q.num * k, q.den)

\* Series.mean(): nan for an empty series.
SeriesMean(data) == IF data = <<>> THEN NotANumber ELSE Rat(Sum(data), Len(data))

\* [value] * periods
Repeat(value, periods) == [i \in 1..periods |-> value]

\* The first points of the history instead of the last.
FirstWindow(data, window) == SubSeq(data, 1, window)

\* The last `window` points: the window rolling(window) ends with, and
\* data.iloc[-window:]
LastWindow(data, window) == SubSeq(data, Len(data) - window + 1, Len(data))

\* Line 30: data.rolling(window=window).mean().iloc[-1], reached with
\* len(data) >= window.  The mean of a window of no points is nan; an empty
\* history has no last element and .iloc[-1] raises IndexError.
RollingMeanLast(data, window) ==
    IF window = 0 THEN NotANumber ELSE SeriesMean(LastWindow(data, window))

\* InventoryPredictor.moving_average_forecast, lines 18-32
moving_average_forecast(data, window, periods) ==
    IF Len(data) < window
    THEN [ret |-> Repeat(SeriesMean(data), periods),
          raised |-> FALSE, divisors |-> <<>>]
    ELSE IF data = <<>>
    THEN [ret |-> <<>>, raised |-> TRUE, divisors |-> <<>>]
    ELSE [ret |-> Repeat(RollingMeanLast(data, window), periods),
          raised |-> FALSE, divisors |-> <<>>]

\* weights = None, and the weights a caller passes
NoWeights == [is_none |-> TRUE, list |-> <<>>]
Weights(list) == [is_none |-> FALSE, list |-> list]

\* Lines 41-43: the default weights [0.5, 0.3, 0.2]
DefaultWeights == <<Rat(1, 2), Rat(3, 10), Rat(1, 5)>>

WeightsOrDefault(weights) == IF weights.is_none THEN DefaultWeights ELSE weights.list

\* Line 49: sum(recent_data.iloc[i] * weights[i] for i in range(len(weights)))
RECURSIVE WeightedSum(_, _, _)
WeightedSum(recent_data, weights, k) ==
    IF k = 0 THEN Rat(0, 1)
    ELSE RatAdd(WeightedSum(recent_data, weights, k - 1),
                RatTimes(weights[k], recent_data[k]))

\* InventoryPredictor.weighted_moving_average, lines 34-52
weighted_moving_average(data, weights, periods) ==
    LET w == WeightsOrDefault(weights)
    IN  IF Len(data) < Len(w)
        THEN moving_average_forecast(data, Len(data), periods)
        ELSE LET recent_data == LastWindow(data, Len(w))
                 wma == WeightedSum(recent_data, w, Len(w))
             IN  [ret |-> Repeat(wma, periods), raised |-> FALSE, divisors |-> <<>>]

MovingAverageForecast ==
    /\ call' = Call("moving_average_forecast", argument, now,
                    moving_average_forecast(argument.data, argument.window,
                                            argument.periods))
    /\ UNCHANGED <<inputs, alerts, now>>

WeightedMovingAverage ==
    /\ call' = Call("weighted_moving_average", argument, now,
                    weighted_moving_average(argument.data, argument.weights,
                                            argument.periods))
    /\ UNCHANGED <<inputs, alerts, now>>

\* The histories: every sequence of up to MaxHistory points.
HistoryValues == {0, 10, 13}

Histories == ListsUpTo(HistoryValues, MaxHistory)

WeightChoices ==
    { NoWeights, Weights(<<Rat(1, 1)>>), Weights(<<Rat(3, 4), Rat(1, 4)>>) }

InitForecast ==
    /\ NoTables
    /\ argument \in [data : Histories, window : 1..MaxWindow,
                     weights : WeightChoices, periods : 0..MaxPeriods]
    /\ Constructed

NextForecast ==
    \/ MovingAverageForecast
    \/ WeightedMovingAverage

SpecForecast == InitForecast /\ [][NextForecast]_vars

-----------------------------------------------------------------------------
(* The other forecasts of InventoryPredictor and their ensemble.           *)

RatMul(a, b) == Rat(a.num * b.num, a.den * b.den)

RatSub(a, b) == Rat(a.num * b.den - b.num * a.den, a.den * b.den)

\* Line 56: alpha = 0.3
DefaultAlpha == Rat(3, 10)

\* Lines 66-71: the last of the smoothed values, the first being data[0].
RECURSIVE Smoothed(_, _, _)
Smoothed(data, alpha, k) ==
    IF k = 1 THEN Rat(data[1], 1)
    ELSE LET before == Smoothed(data, alpha, k - 1)
         IN  RatAdd(RatTimes(alpha, data[k]),
                    RatMul(RatSub(Rat(1, 1), alpha), before))

\* InventoryPredictor.exponential_smoothing, lines 54-74
exponential_smoothing(data, alpha, periods) ==
    IF Len(data) < 2
    THEN [ret |-> Repeat(SeriesMean(data), periods),
          raised |-> FALSE, divisors |-> <<>>]
    ELSE [ret |-> Repeat(Smoothed(data, alpha, Len(data)), periods),
          raised |-> FALSE, divisors |-> <<>>]

\* The sum of x * y over X = 0 .. n-1 (line 87) and y = data (line 88).
RECURSIVE SumXY(_, _)
SumXY(data, k) == IF k = 0 THEN 0 ELSE (k - 1) * data[k] + SumXY(data, k - 1)

\* The sums of x and of x * x over X = 0 .. n-1.
SumX(n) == (n * (n - 1)) \div 2
SumXX(n) == (n * (n - 1) * (2 * n - 1)) \div 6

\* Lines 91-92: the least-squares line through the points (x, data[x]).
Slope(data) ==
    LET n == Len(data)
    IN  Rat(n * SumXY(data, n) - SumX(n) * Sum(data), n * SumXX(n) - SumX(n) * SumX(n))

Intercept(data) ==
    LET n == Len(data)
    IN  RatMul(RatSub(Rat(Sum(data), 1), RatTimes(Slope(data), SumX(n))), Rat(1, n))

\* Line 99: np.maximum(forecast, 0)
Maximum0(q) == IF q.num < 0 THEN Rat(0, 1) ELSE q

\* Lines 95-99: the prediction at x, never negative.
Predicted(data, x) ==
    LET a == Intercept(data)
        b == Slope(data)
    IN  Maximum0(RatAdd(a, RatTimes(b, x)))

\* InventoryPredictor.linear_regression_forecast, lines 76-105.  Whether
\* sklearn can be imported is a fact of the installation.
linear_regression_forecast(data, periods, sklearn) ==
    IF Len(data) < 3
    THEN [ret |-> Repeat(SeriesMean(data), periods),
          raised |-> FALSE, divisors |-> <<>>]
    ELSE IF sklearn
    THEN [ret |-> [i \in 1..periods |-> Predicted(data, Len(data) + i - 1)],
          raised |-> FALSE, divisors |-> <<>>]
    ELSE moving_average_forecast(data, 3, periods)

RECURSIVE SumAt(_, _, _)
SumAt(all_forecasts, i, k) ==
    IF k = 0 THEN Rat(0, 1)
    ELSE RatAdd(SumAt(all_forecasts, i, k - 1), all_forecasts[k][i])

\* Line 193: np.mean(all_forecasts, axis=0) at index i
MeanAxis0(all_forecasts, i) ==
    RatMul(SumAt(all_forecasts, i, Len(all_forecasts)), Rat(1, Len(all_forecasts)))

\* InventoryPredictor.ensemble_forecast, lines 172-196.  The forecasts of
\* lines 181-183 are made outside the try: when one of them raises, the call
\* raises.
ensemble_forecast(data, periods, sklearn) ==
    LET ma == moving_average_forecast(data, 3, periods)
        es == exponential_smoothing(data, DefaultAlpha, periods)
        wma == weighted_moving_average(data, NoWeights, periods)
        lr == linear_regression_forecast(data, periods, sklearn)
    IN  IF ma.raised \/ es.raised \/ wma.raised
        THEN [ret |-> <<>>, raised |-> TRUE, divisors |-> <<>>]
        ELSE LET named == [moving_average |-> ma.ret,
                           exponential_smoothing |-> es.ret,
                           weighted_ma |-> wma.ret]
                 all_forecasts == IF lr.raised THEN <<ma.ret, es.ret, wma.ret>>
                                  ELSE <<ma.ret, es.ret, wma.ret, lr.ret>>
                 ensemble == [i \in 1..periods |-> MeanAxis0(all_forecasts, i)]
                 forecasts == IF lr.raised THEN named
                              ELSE [linear_regression |-> lr.ret] @@ named
             IN  [ret |-> [ensemble |-> ensemble] @@ forecasts,
                  raised |-> FALSE, divisors |-> <<>>]

ExponentialSmoothing ==
    /\ call' = Call("exponential_smoothing", argument, now,
                    exponential_smoothing(argument.data, argument.alpha,
                                          argument.periods))
    /\ UNCHANGED <<inputs, alerts, now>>

LinearRegressionForecast ==
    /\ call' = Call("linear_regression_forecast", argument, now,
                    linear_regression_forecast(argument.data, argument.periods,
                                               argument.sklearn))
    /\ UNCHANGED <<inputs, alerts, now>>

EnsembleForecast ==
    /\ call' = Call("ensemble_forecast", argument, now,
                    ensemble_forecast(argument.data, argument.periods,
                                      argument.sklearn))
    /\ UNCHANGED <<inputs, alerts, now>>

\* Every history with the defaults of the methods, the periods, and whether
\* sklearn is installed.
InitEnsemble ==
    /\ NoTables
    /\ argument \in [data : Histories, window : {3}, weights : {NoWeights},
                     alpha : {DefaultAlpha}, periods : 0..MaxPeriods,
                     sklearn : BOOLEAN]
    /\ Constructed

NextEnsemble ==
    \/ MovingAverageForecast
    \/ ExponentialSmoothing
    \/ WeightedMovingAverage
    \/ LinearRegressionForecast
    \/ EnsembleForecast

SpecEnsemble == InitEnsemble /\ [][NextEnsemble]_vars

-----------------------------------------------------------------------------
(* The accuracy of a forecast, InventoryPredictor.calculate_forecast_accuracy, *)
(* lines 198-221.                                                          *)

\* Line 204: min(len(actual), len(forecast))
MinLen(actual, forecast) ==
    IF Len(actual) < Len(forecast) THEN Len(actual) ELSE Len(forecast)

\* Lines 205-206: series.iloc[:min_len]
Prefix(series, min_len) == SubSeq(series, 1, min_len)

\* The mean of a sequence of fractions; of none, no number.  An infinite
\* term makes the mean infinite, a term that is no number makes it no number.
RECURSIVE RatSumTo(_, _)
RatSumTo(terms, k) ==
    IF k = 0 THEN Rat(0, 1) ELSE RatAdd(RatSumTo(terms, k - 1), terms[k])

RatMean(terms) ==
    IF terms = <<>> THEN NotANumber
    ELSE IF \E i \in 1..Len(terms) : terms[i] = NotANumber THEN NotANumber
    ELSE IF \E i \in 1..Len(terms) : terms[i] = Infinity THEN Infinity
    ELSE RatMul(RatSumTo(terms, Len(terms)), Rat(1, Len(terms)))

\* Line 209: np.mean(np.abs(actual - forecast))
MeanAbsoluteError(actual, forecast) ==
    RatMean([i \in 1..Len(actual) |-> Rat(Abs(actual[i] - forecast[i]), 1)])

\* np.abs((actual - forecast) / actual) at one point: x / 0 is infinite, 0 / 0
\* is no number, and neither raises.
AbsoluteRatio(a, f) ==
    IF a # 0 THEN Rat(Abs(a - f), Abs(a))
    ELSE IF a - f = 0 THEN NotANumber ELSE Infinity

\* Line 212
MeanAbsolutePercentageError(actual, forecast) ==
    IF RatGt(SeriesMean(actual), 0)
    THEN LET mean == RatMean([i \in 1..Len(actual) |->
                                  AbsoluteRatio(actual[i], forecast[i])])
         IN  IF mean.den = 0 THEN mean ELSE RatTimes(mean, 100)
    ELSE Rat(0, 1)

\* Line 215: the mean of the squared errors, of which rmse is the root.
MeanSquaredError(actual, forecast) ==
    RatMean([i \in 1..Len(actual) |->
                 Rat((actual[i] - forecast[i]) * (actual[i] - forecast[i]), 1)])

calculate_forecast_accuracy(actual_arg, forecast_arg) ==
    LET min_len == MinLen(actual_arg, forecast_arg)
        actual == Prefix(actual_arg, min_len)
        forecast == Prefix(forecast_arg, min_len)
    IN  [ret |-> [mae |-> MeanAbsoluteError(actual, forecast),
                  mape |-> MeanAbsolutePercentageError(actual, forecast),
                  rmse |-> [square |-> MeanSquaredError(actual, forecast)]],
         raised |-> FALSE,
         divisors |-> IF RatGt(SeriesMean(actual), 0) THEN actual ELSE <<>>]

CalculateForecastAccuracy ==
    /\ call' = Call("calculate_forecast_accuracy", argument, now,
                    calculate_forecast_accuracy(argument.actual, argument.forecast))
    /\ UNCHANGED <<inputs, alerts, now>>

\* An actual and a forecast series of up to MaxAccuracyPoints points each.
AccuracyValues == {0, 5, 10}

InitAccuracy ==
    /\ NoTables
    /\ argument \in [actual : ListsUpTo(AccuracyValues, MaxAccuracyPoints),
                     forecast : ListsUpTo(AccuracyValues, MaxAccuracyPoints)]
    /\ Constructed

NextAccuracy == CalculateForecastAccuracy

SpecAccuracy == InitAccuracy /\ [][NextAccuracy]_vars

-----------------------------------------------------------------------------
(* The reorder date, InventoryPredictor.predict_reorder_date, lines        *)
(* 223-240.  A date is a year, a month and a day of the calendar.          *)

IsLeap(year) == (year % 4 = 0 /\ year % 100 # 0) \/ year % 400 = 0

DaysInMonth(year, month) ==
    IF month = 2 THEN (IF IsLeap(year) THEN 29 ELSE 28)
    ELSE IF month \in {4, 6, 9, 11} THEN 30 ELSE 31

NextDay(date) ==
    IF date.day < DaysInMonth(date.year, date.month)
    THEN [date EXCEPT !.day = date.day + 1]
    ELSE IF date.month < 12
    THEN [year |-> date.year, month |-> date.month + 1, day |-> 1]
    ELSE [year |-> date.year + 1, month |-> 1, day |-> 1]

\* Line 237: date + timedelta(days=days)
RECURSIVE AddDays(_, _)
AddDays(date, days) == IF days = 0 THEN date ELSE AddDays(NextDay(date), days - 1)

Digits == <<"0", "1", "2", "3", "4", "5", "6", "7", "8", "9">>

Digit(d) == Digits[d + 1]

\* Line 238: strftime('%Y-%m-%d'), the year on four digits, the month and the
\* day on two.
strftime(date) ==
    << Digit(date.year \div 1000), Digit((date.year \div 100) % 10),
       Digit((date.year \div 10) % 10), Digit(date.year % 10), "-",
       Digit(date.month \div 10), Digit(date.month % 10), "-",
       Digit(date.day \div 10), Digit(date.day % 10) >>

\* Line 234: max(0, x)
Max0(q) == IF RatGt(q, 0) THEN q ELSE Rat(0, 1)

\* The next whole number instead of the one before.
RoundedUp(q) == (q.num + q.den - 1) \div q.den

\* Lines 237 and 240: int(x) of a number that is not negative
Truncated(q) == q.num \div q.den

\* float('inf'), "Unknown"
Unknown == [days |-> Infinity, date |-> <<"U", "n", "k", "n", "o", "w", "n">>]

\* `today` is the date datetime.now() reads at the call.
predict_reorder_date(current_stock, daily_usage, reorder_point, today) ==
    IF daily_usage = 0
    THEN [ret |-> Unknown, raised |-> FALSE, divisors |-> <<>>]
    ELSE LET days_until_reorder == Max0(Rat(current_stock - reorder_point, daily_usage))
             days == Truncated(days_until_reorder)
             reorder_date == AddDays(today, days)
         IN  [ret |-> [days |-> days, date |-> strftime(reorder_date)],
              raised |-> FALSE, divisors |-> <<daily_usage>>]

PredictReorderDate ==
    /\ call' = Call("predict_reorder_date", argument, now,
                    predict_reorder_date(argument.current_stock, argument.daily_usage,
                                         argument.reorder_point, argument.today))
    /\ UNCHANGED <<inputs, alerts, now>>

\* Days before the end of a February with and without a 29th, of a year and
\* of a month of 30 days.
Todays ==
    { [year |-> 2024, month |-> 2, day |-> 20], [year |-> 2025, month |-> 2, day |-> 20],
      [year |-> 2100, month |-> 2, day |-> 20], [year |-> 2025, month |-> 12, day |-> 9],
      [year |-> 2026, month |-> 11, day |-> 1] }

ReorderPoints == {0, 5, 20}

InitReorderDate ==
    /\ NoTables
    /\ argument \in [current_stock : 0..MaxDateStock, daily_usage : -1..MaxUsage,
                     reorder_point : ReorderPoints, today : Todays]
    /\ Constructed

NextReorderDate == PredictReorderDate

SpecReorderDate == InitReorderDate /\ [][NextReorderDate]_vars

-----------------------------------------------------------------------------
(* The ABC classification, InventoryAnalytics.identify_abc_classification, *)
(* src/src/analytics.py lines 106-127.  An item is a row with its index    *)
(* label and its value.                                                    *)

\* Line 117: sort_values(value_column, ascending=False) with the default
\* sort, which promises no order among equal values: every descending order
\* of the rows.
DescendingOrders(df) ==
    LET n == Len(df)
        orders == { p \in [1..n -> 1..n] : \A i, j \in 1..n : i # j => p[i] # p[j] }
    IN  { [i \in 1..n |-> df[p[i]]] : p \in
              { q \in orders : \A i \in 1..(n - 1) : df[q[i]].value >= df[q[i + 1]].value } }

\* Line 118: cumsum()
RECURSIVE CumSum(_, _)
CumSum(df, k) == IF k = 0 THEN 0 ELSE df[k].value + CumSum(df, k - 1)

\* Line 120: (cumulative_value / total_value) * 100
CumulativePercentage(cumulative_value, total_value) ==
    LET share == SeriesDivide(cumulative_value, total_value)
    IN  IF share.den = 0 THEN share ELSE RatTimes(share, 100)

\* The class with the limits themselves left to the next class.
AbcClassBelowLimit(cumulative_percentage) ==
    IF RatLt(cumulative_percentage, 80) THEN "A"
    ELSE IF RatGeq(cumulative_percentage, 80) /\ RatLt(cumulative_percentage, 95) THEN "B"
    ELSE "C"

\* Lines 123-125
AbcClass(cumulative_percentage) ==
    IF RatLeq(cumulative_percentage, 80) THEN "A"
    ELSE IF RatGt(cumulative_percentage, 80) /\ RatLeq(cumulative_percentage, 95) THEN "B"
    ELSE "C"

\* Lines 118-125 on the sorted rows
Classified(df) ==
    LET total_value == CumSum(df, Len(df))
    IN  [i \in 1..Len(df) |->
            LET cumulative_value == CumSum(df, i)
                cumulative_percentage ==
                    CumulativePercentage(cumulative_value, total_value)
            IN  [name |-> df[i].name, value |-> df[i].value,
                 cumulative_value |-> cumulative_value,
                 cumulative_percentage |-> cumulative_percentage,
                 abc_class |-> AbcClass(cumulative_percentage)]]

\* The frames the call can return: the frame itself when it is empty or has
\* no such column (lines 113-114).
identify_abc_classification(items_df, value_column) ==
    IF items_df = <<>> \/ value_column # "value"
    THEN {[ret |-> items_df, raised |-> FALSE, divisors |-> <<>>]}
    ELSE { [ret |-> Classified(df), raised |-> FALSE,
            divisors |-> <<CumSum(df, Len(df))>>] : df \in DescendingOrders(items_df) }

IdentifyAbcClassification ==
    /\ \E outcome \in identify_abc_classification(argument.items_df,
                                                  argument.value_column) :
           call' = Call("identify_abc_classification", argument, now, outcome)
    /\ UNCHANGED <<inputs, alerts, now>>

\* The items: up to MaxItems rows, labelled by their position.  With the
\* values 16, 3 and 1 the cumulative percentages are 80, 95 and 100.
ItemValues == {0, 1, 3, 16}

ItemFrames ==
    { [i \in 1..Len(values) |-> [name |-> i, value |-> values[i]]] :
          values \in ListsUpTo(ItemValues, MaxItems) }

InitAbc ==
    /\ NoTables
    /\ argument \in [items_df : ItemFrames, value_column : {"value", "cost"}]
    /\ Constructed

NextAbc == IdentifyAbcClassification

SpecAbc == InitAbc /\ [][NextAbc]_vars

-----------------------------------------------------------------------------
(* The economic order quantity, InventoryAnalytics.calculate_eoq,          *)
(* src/src/analytics.py lines 17-25.  A root is kept as its sign and its   *)
(* square.                                                                 *)

\* The int 0 of line 23
Zero == [sign |-> 0, square |-> Rat(0, 1)]

\* np.sqrt(x): the root that is not negative; of a negative number, nan
\* (with a warning, without raising).
Sqrt(x) ==
    IF x.num < 0 THEN [sign |-> 0, square |-> NotANumber]
    ELSE [sign |-> IF x.num = 0 THEN 0 ELSE 1, square |-> x]

\* The quotient without the factor 2.
RadicandWithoutTwo(annual_demand, ordering_cost, holding_cost) ==
    Rat(annual_demand * ordering_cost, holding_cost)

\* Line 24: (2 * annual_demand * ordering_cost) / holding_cost
Radicand(annual_demand, ordering_cost, holding_cost) ==
    Rat(2 * annual_demand * ordering_cost, holding_cost)

calculate_eoq(annual_demand, ordering_cost, holding_cost) ==
    IF holding_cost = 0
    THEN [ret |-> Zero, raised |-> FALSE, divisors |-> <<>>]
    ELSE [ret |-> Sqrt(Radicand(annual_demand, ordering_cost, holding_cost)),
          raised |-> FALSE, divisors |-> <<holding_cost>>]

CalculateEoq ==
    /\ call' = Call("calculate_eoq", argument, now,
                    calculate_eoq(argument.annual_demand, argument.ordering_cost,
                                  argument.holding_cost))
    /\ UNCHANGED <<inputs, alerts, now>>

InitEoq ==
    /\ NoTables
    /\ argument \in [annual_demand : -1..MaxDemand, ordering_cost : -1..MaxCost,
                     holding_cost : -1..MaxCost]
    /\ Constructed

NextEoq == CalculateEoq

SpecEoq == InitEoq /\ [][NextEoq]_vars

-----------------------------------------------------------------------------
(* Every method of one instance called in any order: the four detectors,   *)
(* generate_all_alerts and the three readers of the stored alerts.         *)

\* Line 378: a.get('priority') in [self.CRITICAL, self.HIGH]
IsCriticalOrHigh(a) == Get(a, "priority", "None") \in {CRITICAL, HIGH}

\* get_critical_alerts(alerts), lines 373-378
get_critical_alerts(given, stored) ==
    LET list == AlertsOrStored(given, stored)
    IN  [ret |-> SelectSeq(list, IsCriticalOrHigh), raised |-> FALSE,
         divisors |-> <<>>]

GetCriticalAlerts ==
    /\ call' = Call("get_critical_alerts", alerts_arg, now,
                    get_critical_alerts(alerts_arg, alerts))
    /\ UNCHANGED <<inputs, alerts, now>>

\* Tables of up to two rows, the scenario's consumption or none, and the
\* argument of the readers: None, an empty list, or a list of two alerts.
InstanceTables == TablesOfLength(0) \cup TablesOfLength(1) \cup TablesOfLength(2)

InstanceArguments ==
    { NoAlertsArg,
      [is_none |-> FALSE, list |-> <<>>],
      [is_none |-> FALSE,
       list |-> << Named([priority |-> MEDIUM, category |-> STOCKOUT], 1),
                   Named([priority |-> CRITICAL, category |-> STOCKOUT], 2) >>] }

InitInstance ==
    /\ inventory_df \in InstanceTables
    /\ consumption_df \in { NoConsumption,
                            ConsumptionTable(6, <<Column(IngredientNames[1],
                                                         Series("spike", 6))>>) }
    /\ alerts_arg \in InstanceArguments
    /\ argument = NoArgument
    /\ Constructed

NextInstance ==
    \/ DetectStockoutRisk(DefaultTimeframes)
    \/ DetectOverstock(DefaultThresholdDays)
    \/ DetectOptimalReorderTiming
    \/ DetectConsumptionAnomalies(DefaultStdThreshold)
    \/ GenerateAllAlerts
    \/ GetAlertSummary
    \/ GetCriticalAlerts
    \/ GetActionableInsights
    \/ Tick

SpecInstance == InitInstance /\ [][NextInstance]_vars

-----------------------------------------------------------------------------
(* detect_consumption_anomalies with its default threshold on every series *)
(* of up to MaxMonths points, with the side the computed z_score falls on. *)

RoundedColumn(ingredient, usage, rounding) ==
    [ingredient |-> ingredient, usage |-> usage, rounding |-> rounding]

\* The monthly consumption of the series.
RoundedValues == {0, 21}

\* The series whose exact z is the root of months - 1, at 5 and at 10 months,
\* with the side double precision puts the computed z on; of the other
\* series any side is taken.
Extreme(months, latest) ==
    [i \in 1..months |-> IF i = months THEN latest ELSE 21 - latest]

SidesOf(usage) ==
    IF usage = Extreme(5, 21) THEN {0}             \* 2.0
    ELSE IF usage = Extreme(5, 0) THEN {0 - 1}     \* -2.0000000000000004
    ELSE IF usage = Extreme(10, 21) THEN {1}       \* 3.0000000000000004
    ELSE IF usage = Extreme(10, 0) THEN {0}        \* -3.0
    ELSE {0 - 1, 0, 1}

RoundedTables ==
    { ConsumptionTable(Len(c.usage), <<c>>) :
        c \in UNION { { RoundedColumn(IngredientNames[1], usage, rounding) :
                           rounding \in SidesOf(usage) } :
                      usage \in ListsUpTo(RoundedValues, MaxMonths) } }

InitZBound ==
    /\ inventory_df = <<>>
    /\ consumption_df \in RoundedTables
    /\ alerts_arg = NoAlertsArg
    /\ argument = NoArgument
    /\ Constructed

NextZBound == DetectConsumptionAnomalies(DefaultStdThreshold)

SpecZBound == InitZBound /\ [][NextZBound]_vars

-----------------------------------------------------------------------------
(* Runs of generate_all_alerts on every inventory table: every single row   *)
(* over the whole range of stock, usage and lead time, and the tables of   *)
(* several rows.                                                           *)

InitRuns ==
    /\ inventory_df \in InventoryTables
    /\ consumption_df \in { NoConsumption,
                            ConsumptionTable(6, <<Column(IngredientNames[1],
                                                         Series("spike", 6))>>) }
    /\ alerts_arg = NoAlertsArg
    /\ argument = NoArgument
    /\ Constructed

NextRuns ==
    \/ GenerateAllAlerts
    \/ Tick

SpecRuns == InitRuns /\ [][NextRuns]_vars

-----------------------------------------------------------------------------
(* Properties                                                              *)

\* The alerts of a list about one ingredient in one category.
AlertsFor(list, ingredient, category) ==
    SelectSeq(list, LAMBDA a : a.ingredient = ingredient /\ a.category = category)

\* The row of the inventory table an alert is about.
RowOf(alert) ==
    inventory_df[CHOOSE i \in 1..Len(inventory_df) :
                    inventory_df[i].ingredient = alert.ingredient]

ListElements(list) == { list[k] : k \in 1..Len(list) }

\* C1: whatever the inventory table and the timeframe list (any length, any
\* order, duplicates allowed), detect_stockout_risk returns at most one
\* stockout_risk alert per inventory row.
C1_AtMostOneStockoutAlertPerRow ==
    call.op = "detect_stockout_risk" =>
        /\ \A i \in 1..Len(inventory_df) :
              Len(AlertsFor(call.ret, inventory_df[i].ingredient, STOCKOUT)) <= 1
        /\ Len(call.ret) <= Len(inventory_df)

\* C1's case: two rows that each lie within a timeframe listed twice, and one
\* alert for each.
C1_Witness ==
    /\ call.op = "detect_stockout_risk"
    /\ Len(inventory_df) = 2
    /\ Len(call.arg) = 2 /\ call.arg[1] = call.arg[2]
    /\ Len(call.ret) = 2

\* C3: a stockout alert's priority and action follow from days_remaining =
\* current_stock / avg_daily_usage alone: critical up to 3 days ("order
\* immediately" up to 1 day, "order today" above), high above 3 and up to 7
\* days, medium above 7 days, which then lie within some configured timeframe;
\* stock 100, usage 10 and timeframes [3, 7, 14] give exactly one medium alert.
C3_PriorityFromDaysRemaining ==
    call.op = "detect_stockout_risk" =>
        /\ \A j \in 1..Len(call.ret) :
              LET a == call.ret[j]
                  s == RowOf(a).current_stock
                  u == RowOf(a).avg_daily_usage
              IN  /\ u > 0
                  /\ a.days_remaining.num * u = s * a.days_remaining.den
                  /\ a.current_value = s
                  /\ (a.priority = CRITICAL) = (s <= 3 * u)
                  /\ (a.priority = HIGH) = (3 * u < s /\ s <= 7 * u)
                  /\ (a.priority = MEDIUM) = (7 * u < s)
                  /\ (a.action = "ORDER IMMEDIATELY") = (s <= u)
                  /\ (a.action = "Order today") = (u < s /\ s <= 3 * u)
                  /\ (a.action = "Plan order this week") = (a.priority = HIGH)
                  /\ (a.action = "Monitor closely") = (a.priority = MEDIUM)
                  /\ \E t \in ListElements(call.arg) : s <= t * u
        /\ (inventory_df = ScenarioTable /\ call.arg = DefaultTimeframes) =>
              /\ Len(call.ret) = 1
              /\ call.ret[1].priority = MEDIUM

\* C3's case: the scenario's call, answered with an alert.
C3_Witness ==
    /\ call.op = "detect_stockout_risk"
    /\ inventory_df = ScenarioTable
    /\ call.arg = DefaultTimeframes
    /\ call.ret # <<>>

\* The smallest timeframe of the list that s / u does not exceed.
SmallestTimeframe(timeframes, s, u) ==
    LET matching == { t \in ListElements(timeframes) : s <= t * u }
    IN  CHOOSE t \in matching : \A other \in matching : t <= other

\* C4: whatever the timeframe list, ascending or not, a stockout alert is
\* attributed to the smallest listed timeframe t with days_remaining <= t: its
\* timeframe label is that t and its threshold is avg_daily_usage * t.
C4_SmallestTimeframe ==
    call.op = "detect_stockout_risk" =>
        \A j \in 1..Len(call.ret) :
            LET a == call.ret[j]
                s == RowOf(a).current_stock
                u == RowOf(a).avg_daily_usage
                t == SmallestTimeframe(call.arg, s, u)
            IN  /\ a.timeframe = t
                /\ a.threshold = u * t

\* C5: detect_overstock returns an overstock alert for a row exactly when
\* avg_daily_usage > 0 and current_stock / avg_daily_usage > threshold_days
\* (strictly); its priority is high above 90 days of stock and medium
\* otherwise, and its excess_amount is current_stock - avg_daily_usage * 30.
C5_OverstockExactly ==
    call.op = "detect_overstock" =>
        /\ \A i \in 1..Len(inventory_df) :
              LET s == inventory_df[i].current_stock
                  u == inventory_df[i].avg_daily_usage
                  found == AlertsFor(call.ret, inventory_df[i].ingredient, OVERSTOCK)
              IN  /\ Len(found) = IF u > 0 /\ s > call.arg * u THEN 1 ELSE 0
                  /\ \A k \in 1..Len(found) :
                        /\ found[k].priority = IF s > 90 * u THEN HIGH ELSE MEDIUM
                        /\ found[k].excess_amount = s - u * 30
        /\ \A j \in 1..Len(call.ret) : call.ret[j].category = OVERSTOCK

\* C5's case: one table with a medium and a high overstock alert.
C5_Witness ==
    /\ call.op = "detect_overstock"
    /\ Len(call.ret) = 2
    /\ call.ret[1].priority = MEDIUM
    /\ call.ret[2].priority = HIGH

\* C7: detect_optimal_reorder_timing returns a medium reorder_timing alert
\* for a row exactly when avg_daily_usage > 0 and lead_time_days + 3 <=
\* current_stock / avg_daily_usage <= lead_time_days + 10, both bounds
\* included (the lead time of a table without the column is 7, line 242).
C7_ReorderWindowExactly ==
    call.op = "detect_optimal_reorder_timing" =>
        /\ \A i \in 1..Len(inventory_df) :
              LET s == inventory_df[i].current_stock
                  u == inventory_df[i].avg_daily_usage
                  lead == IF "lead_time_days" \in DOMAIN inventory_df[i]
                          THEN inventory_df[i].lead_time_days ELSE 7
                  found == AlertsFor(call.ret, inventory_df[i].ingredient,
                                     REORDER_TIMING)
              IN  /\ Len(found) = IF /\ u > 0
                                     /\ (lead + 3) * u <= s
                                     /\ s <= (lead + 10) * u
                                  THEN 1 ELSE 0
                  /\ \A k \in 1..Len(found) : found[k].priority = MEDIUM
        /\ \A j \in 1..Len(call.ret) : call.ret[j].category = REORDER_TIMING

\* C7's case: an alert for a row at the very end of its window, with a
\* fractional number of days in the table's other cases.
C7_Witness ==
    /\ call.op = "detect_optimal_reorder_timing"
    /\ Len(call.ret) = 1
    /\ call.ret[1].lead_time = 30
    /\ call.ret[1].days_remaining = Rat(40, 1)

\* C9: degenerate inputs raise nothing and yield no alert: on an empty table
\* every inventory detector returns the empty list, and for a row with
\* avg_daily_usage <= 0 no inventory detector returns an alert or divides by
\* that usage, whatever the row's stock.
C9_DegenerateInputs ==
    call.op \in {"detect_stockout_risk", "detect_overstock",
                 "detect_optimal_reorder_timing"} =>
        /\ ~call.raised
        /\ IsEmpty(inventory_df) => call.ret = <<>>
        /\ \A i \in 1..Len(inventory_df) :
              inventory_df[i].avg_daily_usage <= 0 =>
                  /\ \A j \in 1..Len(call.ret) :
                        call.ret[j].ingredient # inventory_df[i].ingredient
                  /\ \A j \in 1..Len(call.divisors) :
                        call.divisors[j].ingredient # inventory_df[i].ingredient

\* C9's case: a call on a table with a row without usage and a row that
\* gets an alert.
C9_Witness ==
    /\ call.op = "detect_optimal_reorder_timing"
    /\ Len(inventory_df) = 2
    /\ inventory_df[1].avg_daily_usage = 0
    /\ Len(call.ret) = 1

\* The alerts of a list about one ingredient.
AlertsAbout(list, ingredient) ==
    SelectSeq(list, LAMBDA a : a.ingredient = ingredient)

SumOfSquares(seq) == Sum([i \in 1..Len(seq) |-> seq[i] * seq[i]])

\* C6: detect_consumption_anomalies tests the latest point of each series
\* only.  A series of fewer than 3 points or of standard deviation 0 gets no
\* alert; otherwise, with z = (latest - mean) / std, it gets exactly one
\* consumption_spike alert when z > std_threshold (critical if z > 3, else
\* high), exactly one medium consumption_drop alert when z < -std_threshold,
\* and nothing otherwise, however extreme an interior point is.  With n points
\* of sum S and sum of squares Q, z = D / sqrt(V) for D = n*latest - S and
\* V = n*Q - S^2.
C6_LatestPointOnly ==
    call.op = "detect_consumption_anomalies" =>
        /\ \A c \in 1..Len(consumption_df.columns) :
              LET usage == consumption_df.columns[c].usage
                  n == Len(usage)
                  found == AlertsAbout(call.ret, consumption_df.columns[c].ingredient)
                  S == Sum(usage)
                  V == n * SumOfSquares(usage) - S * S
                  D == n * usage[n] - S
                  t == call.arg
                  beyond == D * D * t.den * t.den > t.num * t.num * V
              IN  IF n < 3 \/ V = 0 THEN found = <<>>
                  ELSE IF D > 0 /\ beyond
                  THEN /\ Len(found) = 1
                       /\ found[1].category = CONSUMPTION_SPIKE
                       /\ found[1].priority = IF D * D > 9 * V THEN CRITICAL ELSE HIGH
                       /\ found[1].current_value = usage[n]
                  ELSE IF D < 0 /\ beyond
                  THEN /\ Len(found) = 1
                       /\ found[1].category = CONSUMPTION_DROP
                       /\ found[1].priority = MEDIUM
                       /\ found[1].current_value = usage[n]
                  ELSE found = <<>>
        /\ \A j \in 1..Len(call.ret) :
              \E c \in 1..Len(consumption_df.columns) :
                  call.ret[j].ingredient = consumption_df.columns[c].ingredient

\* C6's case: a series whose interior point is its only extreme gets no
\* alert, while the other series of the table gets one for its last point.
C6_Witness ==
    /\ call.op = "detect_consumption_anomalies"
    /\ call.arg = DefaultStdThreshold
    /\ consumption_df.months = 6
    /\ Len(consumption_df.columns) = 2
    /\ consumption_df.columns[2].usage = <<0, 0, 1, 0, 0, 0>>
    /\ Len(call.ret) = 1
    /\ call.ret[1].category = CONSUMPTION_DROP

\* The rank of the five priorities.
RankOf ==
    [p \in Priorities |->
        IF p = CRITICAL THEN 0 ELSE IF p = HIGH THEN 1 ELSE IF p = MEDIUM THEN 2
        ELSE IF p = LOW THEN 3 ELSE 4]

\* C2: the list generate_all_alerts returns has non-decreasing priority rank
\* (critical 0, high 1, medium 2, low 3, info 4) from its first to its last
\* element.
C2_SortedByPriority ==
    call.op = "generate_all_alerts" =>
        /\ \A j \in 1..Len(call.ret) : call.ret[j].priority \in Priorities
        /\ \A j, k \in 1..Len(call.ret) :
              j < k => RankOf[call.ret[j].priority] <= RankOf[call.ret[k].priority]

\* The outputs of the detectors, at the time of the last call, in the order
\* generate_all_alerts appends them.
Concatenated ==
    detect_stockout_risk(inventory_df, DefaultTimeframes, call.at).ret
    \o detect_overstock(inventory_df, DefaultThresholdDays, call.at).ret
    \o detect_optimal_reorder_timing(inventory_df, call.at).ret
    \o (IF ~consumption_df.is_none /\ consumption_df.months > 0
        THEN detect_consumption_anomalies(consumption_df, DefaultStdThreshold,
                                          call.at).ret
        ELSE <<>>)

\* C2's case: a run whose detectors yield alerts of three priorities out of
\* order.
C2_Witness ==
    /\ call.op = "generate_all_alerts"
    /\ call.ret # Concatenated
    /\ {call.ret[j].priority : j \in 1..Len(call.ret)} = {CRITICAL, HIGH, MEDIUM}

\* How often x occurs in a list.
Occurrences(list, x) == Cardinality({j \in 1..Len(list) : list[j] = x})

\* C8: the list generate_all_alerts returns is a permutation of the
\* concatenation of the detector outputs (stockout, overstock, reorder timing,
\* then consumption anomalies when a table that is not empty is given): no
\* alert is dropped, duplicated or altered, and alerts of equal priority keep
\* their order of the concatenation.
C8_StablePermutation ==
    call.op = "generate_all_alerts" =>
        /\ Len(call.ret) = Len(Concatenated)
        /\ \A a \in ListElements(call.ret) \cup ListElements(Concatenated) :
              Occurrences(call.ret, a) = Occurrences(Concatenated, a)
        /\ \A p \in Priorities :
              SelectSeq(call.ret, LAMBDA a : a.priority = p)
                  = SelectSeq(Concatenated, LAMBDA a : a.priority = p)

\* C8's case: a run with an anomaly pass whose alert shares its priority with
\* an inventory alert, and which the sort has to move.
C8_Witness ==
    /\ call.op = "generate_all_alerts"
    /\ call.ret # Concatenated
    /\ \E j, k \in 1..Len(call.ret) :
          /\ j < k
          /\ call.ret[j].priority = call.ret[k].priority
          /\ call.ret[j].category = OVERSTOCK
          /\ call.ret[k].category = CONSUMPTION_SPIKE

\* The priority and category get_alert_summary reads off an alert.
PriorityRead(alert) == IF "priority" \in DOMAIN alert THEN alert.priority ELSE INFO
CategoryRead(alert) == IF "category" \in DOMAIN alert THEN alert.category ELSE "unknown"

RECURSIVE SumOver(_, _)
SumOver(f, keys) ==
    IF keys = {} THEN 0
    ELSE LET k == CHOOSE x \in keys : TRUE
         IN  f[k] + SumOver(f, keys \ {k})

\* The list the last call of get_alert_summary summarised.
Summarised == IF alerts_arg.is_none THEN alerts ELSE alerts_arg.list

\* C10: get_alert_summary returns total = the number of alerts, a by_priority
\* map over all five levels (an alert without a priority counts as info, a
\* level no alert has is 0) and a by_category map over the categories present
\* only; the by_category counts sum to total, and so do the by_priority counts
\* when every alert carries one of the five priorities, as the alerts of
\* generate_all_alerts do.
C10_Summary ==
    call.op = "get_alert_summary" =>
        LET list == Summarised
            summary == call.ret
        IN  /\ summary.total = Len(list)
            /\ DOMAIN summary.by_priority = Priorities
            /\ \A p \in Priorities :
                  summary.by_priority[p] =
                      Cardinality({j \in 1..Len(list) : PriorityRead(list[j]) = p})
            /\ DOMAIN summary.by_category =
                  {CategoryRead(list[j]) : j \in 1..Len(list)}
            /\ \A c \in DOMAIN summary.by_category :
                  summary.by_category[c] =
                      Cardinality({j \in 1..Len(list) : CategoryRead(list[j]) = c})
            /\ SumOver(summary.by_category, DOMAIN summary.by_category) = summary.total
            /\ (\A j \in 1..Len(list) :
                    "priority" \in DOMAIN list[j] /\ list[j].priority \in Priorities)
                => SumOver(summary.by_priority, Priorities) = summary.total
            /\ alerts_arg.is_none =>
                  SumOver(summary.by_priority, Priorities) = summary.total

\* C10's case: the summary of a list a caller hands over, with two alerts of
\* one category and of two of the five priorities.
C10_Witness ==
    /\ call.op = "get_alert_summary"
    /\ ~alerts_arg.is_none
    /\ Len(alerts_arg.list) = 2
    /\ call.ret.by_category = [c \in {OVERSTOCK} |-> 2]
    /\ call.ret.by_priority[HIGH] = 1
    /\ call.ret.by_priority[LOW] = 1

-----------------------------------------------------------------------------
(* C11: get_actionable_insights never returns an empty list.  It returns,  *)
(* in this order: one urgent line iff some stockout alert is critical or   *)
(* high, with the count of all of them and the names of the first three;   *)
(* one overstock line iff there is an overstock alert, its amount 10 times *)
(* the sum of the excess amounts; one spike line iff there is a            *)
(* consumption_spike alert; and the all-optimal line alone exactly when    *)
(* none of the three is there.                                             *)

\* The places of the list, in order, whose alert has the category and one of
\* the priorities.
RECURSIVE PlacesOf(_, _, _, _)
PlacesOf(list, category, priorities, k) ==
    IF k = 0 THEN <<>>
    ELSE LET before == PlacesOf(list, category, priorities, k - 1)
         IN  IF /\ "category" \in DOMAIN list[k]
                /\ list[k].category = category
                /\ \/ priorities = {}
                   \/ /\ "priority" \in DOMAIN list[k]
                      /\ list[k].priority \in priorities
             THEN Append(before, k)
             ELSE before

\* The lines of a result of the kind, in the order of the result.
LinesOf(ret, kind) == SelectSeq(ret, LAMBDA line : line.kind = kind)

C11_ActionableInsights ==
    call.op = "get_actionable_insights" =>
        LET list == IF call.arg.is_none THEN alerts ELSE call.arg.list
            urgent == PlacesOf(list, STOCKOUT, {CRITICAL, HIGH}, Len(list))
            over == PlacesOf(list, OVERSTOCK, {}, Len(list))
            spike == PlacesOf(list, CONSUMPTION_SPIKE, {}, Len(list))
            excess == [i \in 1..Len(over) |->
                         IF "excess_amount" \in DOMAIN list[over[i]]
                         THEN list[over[i]].excess_amount ELSE 0]
            expected ==
                (IF urgent # <<>>
                 THEN << [kind |-> "urgent", count |-> Len(urgent),
                          ingredients |->
                              [i \in 1..(IF Len(urgent) < 3 THEN Len(urgent) ELSE 3) |->
                                  list[urgent[i]].ingredient]] >>
                 ELSE <<>>)
                \o (IF over # <<>>
                    THEN << [kind |-> "overstock", amount |-> 10 * Sum(excess)] >>
                    ELSE <<>>)
                \o (IF spike # <<>>
                    THEN << [kind |-> "spike", count |-> Len(spike)] >>
                    ELSE <<>>)
        IN  /\ ~call.raised
            /\ call.ret # <<>>
            /\ Len(LinesOf(call.ret, "urgent")) <= 1
            /\ Len(LinesOf(call.ret, "overstock")) <= 1
            /\ Len(LinesOf(call.ret, "spike")) <= 1
            /\ expected # <<>> => call.ret = expected
            /\ expected = <<>> <=> call.ret = << [kind |-> "optimal"] >>

\* A call on four stockout alerts of priority critical or high: one line, which
\* counts four and names the first three.
C11_Witness ==
    /\ call.op = "get_actionable_insights"
    /\ ~call.arg.is_none
    /\ Len(call.arg.list) = 4
    /\ Len(call.ret) = 1
    /\ call.ret[1].kind = "urgent"
    /\ call.ret[1].count = 4
    /\ call.ret[1].ingredients = <<NameAt(1), NameAt(2), NameAt(3)>>

-----------------------------------------------------------------------------
(* C12: for fixed avg_daily_usage and reorder_point the status is LowStock *)
(* exactly when current_stock < reorder_point, Overstock exactly when      *)
(* current_stock >= reorder_point and current_stock > avg_daily_usage * 60, *)
(* and Normal otherwise, the two boundaries included; LowStock wins when   *)
(* both thresholds trigger.  Usage 10, stock 5, reorder point 20 gives     *)
(* LowStock with 0.5 days of stock.                                        *)

\* The status the two computations name differently.
StatusKind(status) ==
    IF status \in {"Low - Reorder Now", "Low Stock"} THEN "LowStock" ELSE status

IsStatusCall == call.op \in {"calculate_inventory_metrics", "inventory_status"}

C12_StockStatus ==
    IsStatusCall =>
        LET stock == call.arg.current_stock
            usage == call.arg.avg_daily_usage
            reorder == call.arg.reorder_point
            kind == StatusKind(call.ret.status)
        IN  /\ kind \in {"LowStock", "Overstock", "Normal"}
            /\ kind = "LowStock" <=> stock < reorder
            /\ kind = "Overstock" <=> (stock >= reorder /\ stock > usage * 60)
            /\ kind = "Normal" <=> (stock >= reorder /\ stock <= usage * 60)
            /\ (stock = reorder /\ stock <= usage * 60) => kind = "Normal"
            /\ (stock = usage * 60 /\ stock >= reorder) => kind = "Normal"
            /\ call.arg = MetricsScenario
                   => /\ kind = "LowStock"
                      /\ call.ret.days_of_stock = [num |-> 1, den |-> 2]

\* Both thresholds trigger and the status is LowStock.
C12_Witness ==
    /\ call.op = "calculate_inventory_metrics"
    /\ call.arg.avg_daily_usage > 0
    /\ call.arg.current_stock < call.arg.reorder_point
    /\ call.arg.current_stock > call.arg.avg_daily_usage * 60
    /\ call.ret.status = "Low - Reorder Now"

-----------------------------------------------------------------------------
(* C14: the days of stock are current_stock / avg_daily_usage when         *)
(* avg_daily_usage > 0; when avg_daily_usage is 0 the result is a sentinel *)
(* that is no number of days, and no division by zero is performed.        *)

C14_DaysOfStock ==
    IsStatusCall =>
        LET stock == call.arg.current_stock
            usage == call.arg.avg_daily_usage
            days == call.ret.days_of_stock
        IN  /\ ~call.raised
            /\ usage > 0 => days = Rat(stock, usage)
            /\ usage = 0 => days.den = 0
            /\ \A i \in 1..Len(call.divisors) : call.divisors[i] # 0

-----------------------------------------------------------------------------
(* C16: frequency_to_days is total on strings: lower-cased and trimmed,    *)
(* daily gives 1, weekly 7, biweekly and bi-weekly 14, monthly 30,         *)
(* quarterly 90 and every other string 30; the result is one of 1, 7, 14,  *)
(* 30, 90.                                                                 *)

\* The days of the word a frequency was written from.
DaysOfWord(word) ==
    IF word = <<"d", "a", "i", "l", "y">> THEN 1
    ELSE IF word = <<"w", "e", "e", "k", "l", "y">> THEN 7
    ELSE IF word = <<"b", "i", "w", "e", "e", "k", "l", "y">> THEN 14
    ELSE IF word = <<"b", "i", "-", "w", "e", "e", "k", "l", "y">> THEN 14
    ELSE IF word = <<"m", "o", "n", "t", "h", "l", "y">> THEN 30
    ELSE IF word = <<"q", "u", "a", "r", "t", "e", "r", "l", "y">> THEN 90
    ELSE 30

C16_FrequencyToDays ==
    call.op = "frequency_to_days" =>
        /\ ~call.raised
        /\ call.ret \in {1, 7, 14, 30, 90}
        /\ \A word \in FrequencyWords, casing \in Casings,
              left \in Paddings, right \in Paddings :
                call.arg.frequency = Written(word, casing, left, right)
                    => call.ret = DaysOfWord(word)

\* ' Bi-weekly' followed by a newline gives 14.
C16_Witness ==
    /\ call.op = "frequency_to_days"
    /\ call.arg.frequency = <<" ", "B", "i", "-", "w", "e", "e", "k", "l", "y", "\n">>
    /\ call.ret = 14

-----------------------------------------------------------------------------
(* C15: calculate_reorder_point returns lead_time_days * avg_daily_usage + *)
(* safety_stock, where safety_stock is avg_daily_usage * 7 only when the   *)
(* caller passes none: a safety stock of 0 is honoured.  The result is     *)
(* >= 0 whenever the usage, the lead time and the safety stock are >= 0.   *)

C15_ReorderPoint ==
    call.op = "calculate_reorder_point" =>
        LET usage == call.arg.avg_daily_usage
            lead == call.arg.lead_time_days
            safety == call.arg.safety_stock
        IN  /\ ~call.raised
            /\ safety.is_none => call.ret = lead * usage + usage * 7
            /\ ~safety.is_none => call.ret = lead * usage + safety.value
            /\ (usage >= 0 /\ lead >= 0 /\ (safety.is_none \/ safety.value >= 0))
                   => call.ret >= 0

\* A safety stock of 0 passed with a positive usage: no week of usage is added.
C15_Witness ==
    /\ call.op = "calculate_reorder_point"
    /\ call.arg.safety_stock = SafetyStock(0)
    /\ call.arg.avg_daily_usage = 2
    /\ call.arg.lead_time_days = 7
    /\ call.ret = 14

-----------------------------------------------------------------------------
(* C13: with the default safety stock and a lead time of the frequency     *)
(* table, reorder_point never exceeds avg_daily_usage * 60, so that        *)
(* current_stock < reorder_point and current_stock > avg_daily_usage * 60  *)
(* never hold together.                                                    *)

C13_ThresholdsNeverBoth ==
    call.op = "inventory_row" =>
        LET stock == call.arg.current_stock
            usage == call.arg.avg_daily_usage
        IN  /\ call.ret.reorder_point <= usage * 60
            /\ ~(stock < call.ret.reorder_point /\ stock > usage * 60)

(* C13 as amended: reorder_point is (lead time + 7) * avg_daily_usage.  It *)
(* never exceeds avg_daily_usage * 60 for a daily, weekly, biweekly,       *)
(* monthly or unrecognised frequency, and there the two conditions never   *)
(* hold together.  For a quarterly frequency it is 97 * avg_daily_usage:   *)
(* with a usage above 0 it exceeds avg_daily_usage * 60, the two           *)
(* conditions hold together for every stock between the two, and the       *)
(* status is then LowStock.                                                *)
C13_ThresholdsBothOnlyQuarterly ==
    call.op = "inventory_row" =>
        LET stock == call.arg.current_stock
            usage == call.arg.avg_daily_usage
            reorder == call.ret.reorder_point
            quarterly ==
                call.arg.frequency = <<"q", "u", "a", "r", "t", "e", "r", "l", "y">>
        IN  /\ call.ret.lead_time_days = DaysOfWord(call.arg.frequency)
            /\ reorder = (call.ret.lead_time_days + 7) * usage
            /\ ~quarterly =>
                   /\ reorder <= usage * 60
                   /\ ~(stock < reorder /\ stock > usage * 60)
            /\ quarterly =>
                   /\ reorder = 97 * usage
                   /\ usage > 0 => reorder > usage * 60
                   /\ (usage * 60 < stock /\ stock < 97 * usage)
                          => /\ stock < reorder /\ stock > usage * 60
                             /\ call.ret.status = "Low Stock"

\* A quarterly ingredient with 70 days of stock: both conditions hold.
C13_Witness ==
    /\ call.op = "inventory_row"
    /\ call.arg.frequency = <<"q", "u", "a", "r", "t", "e", "r", "l", "y">>
    /\ call.arg.avg_daily_usage = 1
    /\ call.arg.current_stock = 70
    /\ call.ret.reorder_point = 97
    /\ call.ret.status = "Low Stock"

-----------------------------------------------------------------------------
(* C17: for every month of the sales and every tracked ingredient, the     *)
(* consumption is the sum, over the sale lines of the month that resolve   *)
(* to a recipe and over the recipe columns aliased to the ingredient whose *)
(* quantity is not missing, of quantity * count; every tracked ingredient  *)
(* is in every month's row, 0 when never referenced; the months appear     *)
(* once each, in the order they first appear.  The recipe table and the    *)
(* list of tracked ingredients are not empty.                              *)

\* The token is a substring of the string, whatever its characters, the case
\* of the letters apart.
ContainsLiteral(token, s) ==
    \E i \in 1..(Len(s) - Len(token) + 1) :
        \A k \in 1..Len(token) : LowerChar(token[k]) = LowerChar(s[i + k - 1])

\* The places of the recipes a sale line is compared with successfully: none
\* for an item name that is missing, no string or blank.
ResolvesTo(recipe_df, item) ==
    IF item.kind # "str" \/ \A i \in 1..Len(item.chars) : item.chars[i] \in Whitespace
    THEN {}
    ELSE { i \in 1..Len(recipe_df) :
             ContainsLiteral(FirstToken(item.chars), recipe_df[i].dish_name) }

\* The recipe a sale line resolves to: the first in the order of the table.
FirstOf(places) == CHOOSE i \in places : \A j \in places : i <= j

\* The quantity of the ingredient one dish of the recipe takes.
RECURSIVE QuantityPerDish(_, _, _)
QuantityPerDish(recipe, ingredient, pairs) ==
    IF pairs = {} THEN 0
    ELSE LET pair == CHOOSE p \in pairs : TRUE
             rest == QuantityPerDish(recipe, ingredient, pairs \ {pair})
         IN  IF /\ pair[2] = ingredient
                /\ pair[1] \in DOMAIN recipe.columns
                /\ ~recipe.columns[pair[1]].is_nan
             THEN rest + recipe.columns[pair[1]].value
             ELSE rest

\* What one sale line consumes of the ingredient.
LineConsumption(recipe_df, sale, ingredient) ==
    LET places == ResolvesTo(recipe_df, sale.item)
    IN  IF places = {} THEN 0
        ELSE QuantityPerDish(recipe_df[FirstOf(places)], ingredient, MappingPairs)
                 * (IF sale.count.parsable THEN sale.count.value ELSE 0)

\* What the sale lines of a month consume of the ingredient.
RECURSIVE MonthConsumption(_, _, _, _, _)
MonthConsumption(sales_df, recipe_df, month, ingredient, k) ==
    IF k = 0 THEN 0
    ELSE MonthConsumption(sales_df, recipe_df, month, ingredient, k - 1)
             + (IF sales_df[k].month = month
                THEN LineConsumption(recipe_df, sales_df[k], ingredient)
                ELSE 0)

IsConsumptionCall ==
    /\ call.op \in {"calculate_ingredient_consumption", "analytics_ingredient_consumption"}
    /\ call.arg.sales_df # <<>>
    /\ call.arg.recipe_df # <<>>
    /\ call.arg.tracked_ingredients # <<>>

C17_ConsumptionSums ==
    IsConsumptionCall =>
        LET sales_df == call.arg.sales_df
            tracked == { call.arg.tracked_ingredients[i] :
                           i \in 1..Len(call.arg.tracked_ingredients) }
            months == { sales_df[k].month : k \in 1..Len(sales_df) }
        IN  /\ ~call.raised
            /\ { call.ret[i].month : i \in 1..Len(call.ret) } = months
            /\ Len(call.ret) = Cardinality(months)
            /\ \A i, j \in 1..Len(call.ret) :
                   i < j => \E k \in 1..Len(sales_df) :
                               /\ sales_df[k].month = call.ret[i].month
                               /\ \A l \in 1..k : sales_df[l].month # call.ret[j].month
            /\ \A i \in 1..Len(call.ret) :
                   /\ DOMAIN call.ret[i].consumption = tracked
                   /\ \A ingredient \in tracked :
                          call.ret[i].consumption[ingredient]
                              = MonthConsumption(sales_df, call.arg.recipe_df,
                                                 call.ret[i].month, ingredient,
                                                 Len(sales_df))

-----------------------------------------------------------------------------
(* C18: a sale line resolves to the recipe of the first dish, in the order *)
(* of the recipe table, whose name the first whitespace-delimited token of *)
(* the item name compares with, the case apart; a line whose item name is  *)
(* missing, no string or blank, and a line that no dish matches, contribute *)
(* nothing.  Item 'Ramen Bowl Special' with count 30 against the dish      *)
(* 'Ramen Bowl' with 1 Ramen gives a consumption of 30.                    *)

C18_Resolution ==
    (IsConsumptionCall /\ Len(call.arg.sales_df) = 1) =>
        LET sale == call.arg.sales_df[1]
        IN  /\ ~call.raised
            /\ Len(call.ret) = 1
            /\ \A ingredient \in DOMAIN call.ret[1].consumption :
                   call.ret[1].consumption[ingredient]
                       = LineConsumption(call.arg.recipe_df, sale, ingredient)
            /\ (call.arg.recipe_df = ScenarioRecipes /\ sale.count.parsable
                    /\ sale.count.value = 30)
                   => call.ret[1].consumption["Ramen"] = 30

-----------------------------------------------------------------------------
(* C19: moving_average_forecast returns exactly `periods` values, all      *)
(* equal: the mean of the whole history when len(history) < window,        *)
(* otherwise the mean of the last `window` points.  History                *)
(* [10, 10, 10, 10], window 3, periods 2 gives [10, 10].                   *)

\* The value is the mean of the points; of no points, no number.
IsMeanOf(value, points) ==
    IF points = <<>>
    THEN value.den = 0
    ELSE /\ value.den > 0
         /\ value.num * Len(points) = value.den * Sum(points)

C19_MovingAverage ==
    call.op = "moving_average_forecast" =>
        LET data == call.arg.data
            window == call.arg.window
            n == Len(data)
            points == IF n < window THEN data
                      ELSE [i \in 1..window |-> data[n - window + i]]
        IN  /\ ~call.raised
            /\ Len(call.ret) = call.arg.periods
            /\ \A i \in 1..Len(call.ret) : IsMeanOf(call.ret[i], points)
            /\ \A i, j \in 1..Len(call.ret) : call.ret[i] = call.ret[j]
            /\ (data = <<10, 10, 10, 10>> /\ window = 3 /\ call.arg.periods = 2)
                   => call.ret = << [num |-> 10, den |-> 1], [num |-> 10, den |-> 1] >>

\* A history longer than the window whose last points differ from the first.
C19_Witness ==
    /\ call.op = "moving_average_forecast"
    /\ call.arg.data = <<0, 10, 13, 13>>
    /\ call.arg.window = 3
    /\ call.arg.periods = 2
    /\ call.ret = << [num |-> 12, den |-> 1], [num |-> 12, den |-> 1] >>

-----------------------------------------------------------------------------
(* C20: with a history at least as long as the weights,                    *)
(* weighted_moving_average returns `periods` copies of the weighted sum in *)
(* which weights[0] multiplies the most recent point, weights[1] the one   *)
(* before it, and so on (default weights 0.5, 0.3, 0.2); with a shorter    *)
(* history it returns the moving-average forecast of the whole history.    *)

\* The sum in which the j-th weight multiplies the j-th point from the end.
RECURSIVE RecentFirstSum(_, _, _)
RecentFirstSum(data, weights, j) ==
    IF j = 0 THEN Rat(0, 1)
    ELSE RatAdd(RecentFirstSum(data, weights, j - 1),
                RatTimes(weights[j], data[Len(data) - j + 1]))

C20_WeightedMovingAverage ==
    call.op = "weighted_moving_average" =>
        LET data == call.arg.data
            weights == IF call.arg.weights.is_none
                       THEN << [num |-> 1, den |-> 2], [num |-> 3, den |-> 10],
                               [num |-> 1, den |-> 5] >>
                       ELSE call.arg.weights.list
        IN  /\ ~call.raised
            /\ Len(call.ret) = call.arg.periods
            /\ \A i \in 1..Len(call.ret) :
                   IF Len(data) >= Len(weights)
                   THEN call.ret[i] = RecentFirstSum(data, weights, Len(weights))
                   ELSE IsMeanOf(call.ret[i], data)

-----------------------------------------------------------------------------
(* C21: for any history and any periods >= 1, ensemble_forecast returns    *)
(* every individual method's forecast plus an 'ensemble' series of length  *)
(* `periods` whose i-th value is the arithmetic mean of the i-th values of *)
(* the individual forecasts that were produced.                            *)

Methods == {"moving_average", "exponential_smoothing", "weighted_ma", "linear_regression"}

\* The value times the number of forecasts is the sum of their i-th values.
IsMeanAt(value, forecasts, names, i) ==
    LET RECURSIVE Total(_)
        Total(S) == IF S = {} THEN Rat(0, 1)
                    ELSE LET m == CHOOSE m \in S : TRUE
                         IN  RatAdd(forecasts[m][i], Total(S \ {m}))
    IN  RatTimes(value, Cardinality(names)) = Total(names)

EnsembleOfProduced ==
    LET produced == DOMAIN call.ret \ {"ensemble"}
        data == call.arg.data
        periods == call.arg.periods
    IN  /\ ~call.raised
        /\ "ensemble" \in DOMAIN call.ret
        /\ Methods \ {"linear_regression"} \subseteq produced
        /\ produced \subseteq Methods
        /\ call.ret.moving_average = moving_average_forecast(data, 3, periods).ret
        /\ call.ret.exponential_smoothing =
               exponential_smoothing(data, DefaultAlpha, periods).ret
        /\ call.ret.weighted_ma = weighted_moving_average(data, NoWeights, periods).ret
        /\ "linear_regression" \in produced =>
               call.ret.linear_regression =
                   linear_regression_forecast(data, periods, call.arg.sklearn).ret
        /\ Len(call.ret.ensemble) = periods
        /\ \A i \in 1..periods :
               IsMeanAt(call.ret.ensemble[i], call.ret, produced, i)

C21_Ensemble ==
    (call.op = "ensemble_forecast" /\ call.arg.periods >= 1) => EnsembleOfProduced

-----------------------------------------------------------------------------
(* C22: calling the same forecast method twice with identical inputs       *)
(* yields identical outputs, and running generate_all_alerts twice on      *)
(* identical inventory and consumption inputs yields identical alert lists *)
(* (every field of every alert, in the same order).                        *)

ForecastMethods ==
    {"moving_average_forecast", "exponential_smoothing", "weighted_moving_average",
     "linear_regression_forecast", "ensemble_forecast"}

\* A call follows a call of the same operation on the same inputs.
SameCallAgain ==
    /\ call.op \in ForecastMethods \cup {"generate_all_alerts"}
    /\ call'.op = call.op
    /\ call'.arg = call.arg
    /\ inputs' = inputs

C22_SameInputsSameOutputs ==
    [][SameCallAgain => (call'.raised = call.raised /\ call'.ret = call.ret)]_vars

-----------------------------------------------------------------------------
(* C23: calculate_forecast_accuracy compares only the first                *)
(* min(len(actual), len(forecast)) points of each series; MAPE is 0 when   *)
(* mean(actual) is 0, and computing MAPE never divides by a zero actual    *)
(* value, for any non-negative actual series.                              *)

RECURSIVE AbsoluteErrors(_, _, _)
AbsoluteErrors(actual, forecast, k) ==
    IF k = 0 THEN 0
    ELSE Abs(actual[k] - forecast[k]) + AbsoluteErrors(actual, forecast, k - 1)

C23_ForecastAccuracy ==
    call.op = "calculate_forecast_accuracy" =>
        LET actual == call.arg.actual
            forecast == call.arg.forecast
            n == IF Len(actual) < Len(forecast) THEN Len(actual) ELSE Len(forecast)
        IN  /\ ~call.raised
            /\ n > 0 => /\ call.ret.mae.den > 0
                        /\ call.ret.mae.num * n =
                               call.ret.mae.den * AbsoluteErrors(actual, forecast, n)
            /\ (n > 0 /\ SumTo(actual, n) = 0) => call.ret.mape = [num |-> 0, den |-> 1]
            /\ \A i \in 1..Len(call.divisors) : call.divisors[i] # 0

-----------------------------------------------------------------------------
(* C24: predict_reorder_date returns the 'Unknown'/infinite sentinel when  *)
(* daily_usage is 0 and otherwise max(0, (current_stock - reorder_point) / *)
(* daily_usage) truncated to whole days; for daily_usage > 0 the day count *)
(* is a non-negative integer, is 0 whenever current_stock <= reorder_point, *)
(* and the returned date is today plus that many days.                     *)

\* The number a digit stands for, and the number on the digits k..l of a string.
DigitValue(c) == CHOOSE d \in 0..9 : Digits[d + 1] = c

RECURSIVE NumberAt(_, _, _)
NumberAt(s, k, l) ==
    IF l < k THEN 0 ELSE 10 * NumberAt(s, k, l - 1) + DigitValue(s[l])

\* The day number of a date of the Gregorian calendar, counted from 1 March
\* of year 0.
DayNumber(year, month, day) ==
    LET y == IF month <= 2 THEN year - 1 ELSE year
        m == IF month <= 2 THEN month + 9 ELSE month - 3
    IN  365 * y + y \div 4 - y \div 100 + y \div 400 + (153 * m + 2) \div 5 + day - 1

DayNumberOfString(s) ==
    DayNumber(NumberAt(s, 1, 4), NumberAt(s, 6, 7), NumberAt(s, 9, 10))

C24_ReorderDate ==
    call.op = "predict_reorder_date" =>
        LET stock == call.arg.current_stock
            usage == call.arg.daily_usage
            gap == stock - call.arg.reorder_point
            days == call.ret.days
            today == call.arg.today
        IN  /\ ~call.raised
            /\ usage = 0 => /\ call.ret.days = [num |-> 1, den |-> 0]
                            /\ call.ret.date = <<"U", "n", "k", "n", "o", "w", "n">>
            /\ usage # 0 =>
                   /\ days \in Nat
                   /\ IF gap * usage <= 0 THEN days = 0
                      ELSE /\ days * Abs(usage) <= Abs(gap)
                           /\ Abs(gap) < (days + 1) * Abs(usage)
            /\ usage > 0 =>
                   /\ stock <= call.arg.reorder_point => days = 0
                   /\ Len(call.ret.date) = 10
                   /\ call.ret.date[5] = "-" /\ call.ret.date[8] = "-"
                   /\ DayNumberOfString(call.ret.date) =
                          DayNumber(today.year, today.month, today.day) + days

\* Stock 38, reorder point 5, usage 2: 16 whole days from 20 February 2024,
\* across the 29th.
C24_Witness ==
    /\ call.op = "predict_reorder_date"
    /\ call.arg.current_stock = 38
    /\ call.arg.reorder_point = 5
    /\ call.arg.daily_usage = 2
    /\ call.arg.today = [year |-> 2024, month |-> 2, day |-> 20]
    /\ call.ret.days = 16
    /\ call.ret.date = <<"2", "0", "2", "4", "-", "0", "3", "-", "0", "7">>

-----------------------------------------------------------------------------
(* C25: identify_abc_classification sorts the items by value descending    *)
(* and labels each item from its own running cumulative percentage of the  *)
(* total value: A iff cumulative <= 80, B iff 80 < cumulative <= 95, C     *)
(* otherwise; every item gets exactly one class, the classes never go back *)
(* from C to B or from B to A along the sorted order, and the last item is *)
(* always C.                                                               *)

ClassRank(class) == CASE class = "A" -> 1 [] class = "B" -> 2 [] class = "C" -> 3

RECURSIVE ValuesTo(_, _)
ValuesTo(rows, k) == IF k = 0 THEN 0 ELSE rows[k].value + ValuesTo(rows, k - 1)

C25_AbcClassification ==
    (/\ call.op = "identify_abc_classification"
     /\ call.arg.items_df # <<>>
     /\ call.arg.value_column = "value") =>
        LET given == call.arg.items_df
            rows == call.ret
            n == Len(rows)
            total == ValuesTo(rows, n)
        IN  /\ ~call.raised
            /\ n = Len(given)
            /\ \A i \in 1..n : \E j \in 1..n :
                   rows[j].name = given[i].name /\ rows[j].value = given[i].value
            /\ \A i \in 1..(n - 1) : rows[i].value >= rows[i + 1].value
            /\ \A i \in 1..n :
                   LET cumulative == ValuesTo(rows, i)
                   IN  /\ rows[i].abc_class \in {"A", "B", "C"}
                       /\ rows[i].abc_class = "A" <=>
                              (total > 0 /\ 100 * cumulative <= 80 * total)
                       /\ rows[i].abc_class = "B" <=>
                              (/\ total > 0
                               /\ 100 * cumulative > 80 * total
                               /\ 100 * cumulative <= 95 * total)
            /\ \A i \in 1..(n - 1) :
                   ClassRank(rows[i].abc_class) <= ClassRank(rows[i + 1].abc_class)
            /\ rows[n].abc_class = "C"

\* Values 1, 16 and 3: sorted 16, 3, 1 with the cumulative percentages 80, 95
\* and 100.
C25_Witness ==
    /\ call.op = "identify_abc_classification"
    /\ call.arg.value_column = "value"
    /\ Len(call.arg.items_df) = 3
    /\ call.arg.items_df[1].value = 1
    /\ call.arg.items_df[2].value = 16
    /\ Len(call.ret) = 3
    /\ call.ret[1].name = 2 /\ call.ret[1].abc_class = "A"
    /\ call.ret[2].name = 3 /\ call.ret[2].abc_class = "B"
    /\ call.ret[3].name = 1 /\ call.ret[3].abc_class = "C"

-----------------------------------------------------------------------------
(* C26: calculate_eoq never returns a negative number for any inputs,      *)
(* returns exactly 0 when holding_cost is 0, and otherwise returns         *)
(* sqrt(2 * annual_demand * ordering_cost / holding_cost).                 *)

C26_Eoq ==
    call.op = "calculate_eoq" =>
        LET twice == 2 * call.arg.annual_demand * call.arg.ordering_cost
            holding == call.arg.holding_cost
            eoq == call.ret
        IN  /\ ~call.raised
            /\ eoq.sign >= 0
            /\ holding = 0 => eoq = [sign |-> 0, square |-> [num |-> 0, den |-> 1]]
            /\ (holding # 0 /\ twice * holding >= 0) =>
                   /\ eoq.square.den > 0
                   /\ eoq.square.num * holding = eoq.square.den * twice
                   /\ eoq.sign = 0 <=> twice = 0
            /\ (holding # 0 /\ twice * holding < 0) => eoq.square.den = 0

\* Demand 8, ordering cost 4, holding cost 4: the root of 16.
C26_Witness ==
    /\ call.op = "calculate_eoq"
    /\ call.arg.annual_demand = 8
    /\ call.arg.ordering_cost = 4
    /\ call.arg.holding_cost = 4
    /\ call.ret = [sign |-> 1, square |-> [num |-> 16, den |-> 1]]

-----------------------------------------------------------------------------
(* C27: across any sequence of calls on one instance, the stored alert     *)
(* list is written only by generate_all_alerts, which replaces it with     *)
(* exactly the list it returns; the four detectors, get_alert_summary,     *)
(* get_critical_alerts and get_actionable_insights leave it unchanged, and *)
(* the latter three called without an argument operate on the most recent  *)
(* generate_all_alerts result (the empty list before any run).             *)

Readers == {"get_alert_summary", "get_critical_alerts", "get_actionable_insights"}

\* What a reader returns when it is handed the list explicitly.
ReadOf(op, list) ==
    LET given == [is_none |-> FALSE, list |-> list]
    IN  CASE op = "get_alert_summary" -> get_alert_summary(given, <<>>).ret
          [] op = "get_critical_alerts" -> get_critical_alerts(given, <<>>).ret
          [] op = "get_actionable_insights" -> get_actionable_insights(given, <<>>).ret

C27_StoredAlertsFrame ==
    [][/\ alerts' # alerts => call'.op = "generate_all_alerts"
       /\ (call'.op = "generate_all_alerts" /\ ~call'.raised) => alerts' = call'.ret
       /\ call'.op # "generate_all_alerts" => alerts' = alerts
       /\ \A op \in Readers :
              (call'.op = op /\ call'.arg.is_none) => call'.ret = ReadOf(op, alerts)
       /\ (call.op = "__init__" /\ call'.op \in Readers /\ call'.arg.is_none)
              => call'.ret = ReadOf(call'.op, <<>>)]_vars

\* A second run at a later time has replaced the alerts of the first, and a
\* reader called without an argument has read them.
C27_Witness ==
    /\ call.op = "get_critical_alerts"
    /\ call.arg.is_none
    /\ Len(inventory_df) = 2
    /\ Len(alerts) = 2
    /\ \A i \in 1..Len(alerts) : alerts[i].timestamp = 1
    /\ call.ret = alerts

-----------------------------------------------------------------------------
(* C28: because the z-score uses the population standard deviation, |z| of *)
(* the latest point is at most sqrt(n-1) for a series of n points; hence   *)
(* with the default std_threshold 2.0 detect_consumption_anomalies emits   *)
(* no alert at all for any series of 3, 4 or 5 monthly points, and never   *)
(* emits a critical spike (z > 3) for any series of 10 or fewer points.    *)

IsCriticalSpike(a) == a.category = "consumption_spike" /\ a.priority = "critical"

\* The exact z of every alert is within the root of months - 1.
WithinRootBound ==
    \A i \in 1..Len(call.ret) :
        /\ call.ret[i].z_score.square.den > 0
        /\ call.ret[i].z_score.square.num
               <= (consumption_df.months - 1) * call.ret[i].z_score.square.den

C28_NoAlertUpToFivePoints ==
    call.op = "detect_consumption_anomalies" =>
        /\ ~call.raised
        /\ consumption_df.months \in {3, 4, 5} => call.ret = <<>>
        /\ consumption_df.months <= 10 =>
               \A i \in 1..Len(call.ret) : ~IsCriticalSpike(call.ret[i])

\* The same for the series on which the bound lies strictly below the
\* threshold: 3 or 4 points, and 9 or fewer points for a critical spike.
C28_NoAlertUpToFourPoints ==
    call.op = "detect_consumption_anomalies" =>
        /\ ~call.raised
        /\ WithinRootBound
        /\ consumption_df.months \in {3, 4} => call.ret = <<>>
        /\ consumption_df.months <= 9 =>
               \A i \in 1..Len(call.ret) : ~IsCriticalSpike(call.ret[i])

\* Four points with the largest possible z, the root of 3, computed above
\* it: no alert.
C28_Witness ==
    /\ call.op = "detect_consumption_anomalies"
    /\ consumption_df.months = 4
    /\ consumption_df.columns[1].usage = <<0, 0, 0, 21>>
    /\ consumption_df.columns[1].rounding = 1
    /\ call.ret = <<>>


-----------------------------------------------------------------------------
\* C29: in one generate_all_alerts run (default timeframes and overstock
\* threshold 60) no ingredient receives an overstock alert together with a
\* stockout_risk alert, and no ingredient whose lead_time_days is at most 30
\* receives an overstock alert together with a reorder_timing alert.
Receives(list, ingredient, category) ==
    \E i \in 1..Len(list) :
        /\ list[i].ingredient = ingredient
        /\ list[i].category = category

LeadTimeOf(row) == Get(row, "lead_time_days", 7)

C29_OverstockExcludesOrdering ==
    (call.op = "generate_all_alerts" /\ ~call.raised) =>
        \A r \in 1..Len(inventory_df) :
            LET row == inventory_df[r]
                overstock == Receives(call.ret, row.ingredient, OVERSTOCK)
            IN  /\ ~(overstock /\ Receives(call.ret, row.ingredient, STOCKOUT))
                /\ LeadTimeOf(row) <= 30 =>
                       ~(overstock
                         /\ Receives(call.ret, row.ingredient, REORDER_TIMING))

\* A run on the ingredient with 95 days of stock and lead time 90: it is in
\* its reorder window (93 to 100 days) and overstocked at once, which the
\* claim allows for a lead time above 30 only.
C29_Witness ==
    /\ call.op = "generate_all_alerts"
    /\ Len(inventory_df) = 1
    /\ inventory_df[1].current_stock = 95
    /\ inventory_df[1].avg_daily_usage = 1
    /\ LeadTimeOf(inventory_df[1]) = 90
    /\ Receives(call.ret, inventory_df[1].ingredient, OVERSTOCK)
    /\ Receives(call.ret, inventory_df[1].ingredient, REORDER_TIMING)
    /\ ~Receives(call.ret, inventory_df[1].ingredient, STOCKOUT)


-----------------------------------------------------------------------------
\* C30: after a generate_all_alerts run, get_critical_alerts() returns exactly
\* a leading prefix of the list the run returned and stored, in the same
\* order: every critical or high alert precedes every other alert, and none
\* is omitted.
IsLeadingPrefix(prefix, list) ==
    /\ Len(prefix) <= Len(list)
    /\ prefix = SubSeq(list, 1, Len(prefix))

C30_CriticalAlertsAreAPrefix ==
    (call.op = "get_critical_alerts" /\ call.arg.is_none) =>
        /\ IsLeadingPrefix(call.ret, alerts)
        /\ \A i \in 1..Len(alerts) :
               IsCriticalOrHigh(alerts[i]) <=> i <= Len(call.ret)

\* get_critical_alerts() after a run that stored critical or high alerts of
\* two detectors and lower alerts behind them.
C30_Witness ==
    /\ call.op = "get_critical_alerts"
    /\ call.arg.is_none
    /\ Len(call.ret) >= 2
    /\ Len(alerts) > Len(call.ret)
    /\ \E i, j \in 1..Len(call.ret) :
           call.ret[i].category = STOCKOUT /\ call.ret[j].category # STOCKOUT

=============================================================================
